---- MODULE Spec2Model ----
(***************************************************************************)
(* A model of ag-viz: the schema loaders (ag_viz/io.py), the model-spec    *)
(* formatter (ag_viz/utils.py) and the fields of the forecast report that  *)
(* depend on the model document (ag_viz/markdown_reports.py).              *)
(*                                                                         *)
(* Python values are tagged records: the tag k names the Python type and   *)
(* one payload field holds the value.  A dict is a function from its keys  *)
(* to values, a list is a sequence, a str is a sequence of characters.     *)
(* Messages of exceptions are sequences of words.                          *)
(***************************************************************************)
EXTENDS Integers, Sequences, FiniteSets, TLC

VARIABLES
    model_json,   \* the in-memory model document handed to the formatter/report
    fmt,          \* outcome of the last format_model_spec call
    report,       \* outcome of the last generate_forecast_report call
    fs,           \* the file system: path -> file content, or NoFile
    call,         \* the last loader call: function name and path
    result,       \* outcome of the last loader call
    dirs,         \* the directories that exist
    diagnostics_json,  \* the in-memory diagnostics document, or None
    env,          \* the process-wide state: the environment variables seen by
                  \* find_ag_executable and the global random-number generator
    cli           \* a run of a CLI command: position, stages done, output

vars == <<model_json, fmt, report, fs, call, result, dirs, diagnostics_json, env, cli>>

\* The state outside the loaders, the formatter and the forecast report text.
outside == <<dirs, diagnostics_json, env, cli>>

(***************************************************************************)
(* Bounds.                                                                 *)
(***************************************************************************)
MaxOrder == 1      \* ARIMA/GARCH order fields range over 0..MaxOrder
MaxHorizon == 2    \* forecast tables have 0..MaxHorizon rows
MaxLines == 3      \* CSV files have at most MaxLines lines after the header
MaxPathId == 1     \* simulation path identifiers range over 0..MaxPathId
MaxMembers == 2    \* a JSON object text has at most MaxMembers members
MaxRows == 2       \* in-memory series tables have 0..MaxRows rows
MaxLags == 2       \* Ljung-Box arrays have at most MaxLags entries

(***************************************************************************)
(* Python values.                                                          *)
(***************************************************************************)
JNull == [k |-> "null"]
JBool(b) == [k |-> "bool", b |-> b]
JInt(n) == [k |-> "int", i |-> n]
JStr(s) == [k |-> "str", s |-> s]
JList(l) == [k |-> "list", l |-> l]
\* A dict: its entries, and its keys in the order they were inserted.
JObj(f, order) == [k |-> "obj", o |-> f, keys |-> order]

\* Marks a key that a dict under construction does not have.
Absent == [k |-> "absent"]

\* The dict built by inserting the pairs <<key, value>> in turn, the keys
\* differing; a pair whose value is Absent is left out.
MkObj(pairs) ==
    LET kept == SelectSeq(pairs, LAMBDA pair : pair[2] # Absent)
    IN JObj([key \in {kept[i][1] : i \in DOMAIN kept} |->
                kept[CHOOSE i \in DOMAIN kept : kept[i][1] = key][2]],
            [i \in DOMAIN kept |-> kept[i][1]])

EmptyObj == JObj([key \in {} |-> Absent], <<>>)

\* Only a dict has a .get method; any other JSON-derived value raises
\* AttributeError on `.get`.
HasGet(x) == x.k = "obj"

\* dict.get(key, default)
Get(d, key, default) == IF key \in DOMAIN d.o THEN d.o[key] ELSE default

RECURSIVE Join(_)
Join(chars) == IF chars = <<>> THEN "" ELSE Head(chars) \o Join(Tail(chars))

\* str(v), as an f-string placeholder renders it.
PyStr(v) ==
    CASE v.k = "int" -> ToString(v.i)
      [] v.k = "null" -> "None"
      [] v.k = "bool" -> IF v.b THEN "True" ELSE "False"
      [] v.k = "str" -> Join(v.s)
      [] v.k = "float" ->
            LET a == IF v.c < 0 THEN 0 - v.c ELSE v.c IN
            (IF v.c < 0 THEN "-" ELSE "") \o ToString(a \div 100) \o "."
                \o (IF a % 10 = 0 THEN ToString((a % 100) \div 10)
                    ELSE (IF a % 100 < 10 THEN "0" ELSE "") \o ToString(a % 100))

(***************************************************************************)
(* format_model_spec (utils.py).                                           *)
(***************************************************************************)
Returned(v) == [exc |-> "none", val |-> v]
Raised(e) == [exc |-> e, val |-> ""]

\* The body of the try block: the first .get on a non-dict raises.
FormatBody(mj) ==
    IF ~HasGet(mj) THEN Raised("AttributeError")
    ELSE LET spec == Get(mj, "spec", EmptyObj) IN
      IF ~HasGet(spec) THEN Raised("AttributeError")
      ELSE LET arima == Get(spec, "arima", EmptyObj)
               garch == Get(spec, "garch", EmptyObj) IN
        IF ~HasGet(arima) \/ ~HasGet(garch) THEN Raised("AttributeError")
        ELSE LET arima_str == "ARIMA(" \o PyStr(Get(arima, "p", JInt(0))) \o ","
                                       \o PyStr(Get(arima, "d", JInt(0))) \o ","
                                       \o PyStr(Get(arima, "q", JInt(0))) \o ")"
                 garch_str == "GARCH(" \o PyStr(Get(garch, "p", JInt(0))) \o ","
                                       \o PyStr(Get(garch, "q", JInt(0))) \o ")"
             IN Returned(arima_str \o "-" \o garch_str)

\* A formatter without the except clause: the error reaches the caller.
format_model_spec_no_except(mj) == FormatBody(mj)

\* A formatter that renders the fields in the order p,q,d.
format_model_spec_swapped(mj) ==
    LET r == FormatBody(mj) IN
    IF r.exc # "none" THEN Returned("Unknown Model")
    ELSE LET arima == Get(Get(mj, "spec", EmptyObj), "arima", EmptyObj)
             garch == Get(Get(mj, "spec", EmptyObj), "garch", EmptyObj)
         IN Returned("ARIMA(" \o PyStr(Get(arima, "p", JInt(0))) \o ","
                              \o PyStr(Get(arima, "q", JInt(0))) \o ","
                              \o PyStr(Get(arima, "d", JInt(0))) \o ")-GARCH("
                              \o PyStr(Get(garch, "p", JInt(0))) \o ","
                              \o PyStr(Get(garch, "q", JInt(0))) \o ")")

\* A formatter that answers the sentinel for every document.
format_model_spec_sentinel(mj) == Returned("Unknown Model")

format_model_spec(mj) ==
    LET r == FormatBody(mj) IN
    IF r.exc # "none" THEN Returned("Unknown Model") ELSE r

(***************************************************************************)
(* Tables (pandas DataFrame): column names in file order and the rows,     *)
(* each row a function from the column names to the cell values.           *)
(***************************************************************************)
DataFrame(columns, rows) == [k |-> "df", columns |-> columns, rows |-> rows]

\* A table whose columns have dtype object: the cells are Python strings.
ObjectFrame(columns, rows) == [k |-> "dfo", columns |-> columns, rows |-> rows]

Range(s) == {s[i] : i \in DOMAIN s}

\* The row of `columns` whose `col` cell is v and whose other cells are 0.
RowWith(columns, col, v) == [c \in Range(columns) |-> IF c = col THEN v ELSE 0]

ForecastColumns == <<"step", "mean", "variance", "std_dev">>

\* Forecast tables as the external tool writes them: step = 1, 2, ...
ForecastFrames ==
    {DataFrame(ForecastColumns, [i \in 1..h |-> RowWith(ForecastColumns, "step", i)]) :
        h \in 0..MaxHorizon}

(***************************************************************************)
(* generate_forecast_report (markdown_reports.py): the fields of the       *)
(* closing template that depend on the model document and on the table     *)
(* length.                                                                 *)
(***************************************************************************)
\* model_json.get('spec', {}).get(rec, {}).get(key, default), rendered.
RefitField(mj, rec, key, default) ==
    IF ~HasGet(mj) THEN Raised("AttributeError")
    ELSE LET spec == Get(mj, "spec", EmptyObj) IN
      IF ~HasGet(spec) THEN Raised("AttributeError")
      ELSE LET r == Get(spec, rec, EmptyObj) IN
        IF ~HasGet(r) THEN Raised("AttributeError")
        ELSE Returned(PyStr(Get(r, key, JInt(default))))

NoReport ==
    [exc |-> "nocall", model_type |-> "", horizon |-> 0,
     refit_arima |-> "", refit_garch |-> "", simulate_n |-> 0]

\* The model type line, the horizon and the orders of the "refit" and
\* "simulate" commands under "Next Steps".
ForecastFields(mj, forecast_df) ==
    LET model_spec == format_model_spec(mj).val
        horizon == Len(forecast_df.rows)
        ap == RefitField(mj, "arima", "p", 1)
        ad == RefitField(mj, "arima", "d", 0)
        aq == RefitField(mj, "arima", "q", 1)
        gp == RefitField(mj, "garch", "p", 1)
        gq == RefitField(mj, "garch", "q", 1)
    IN IF \E r \in {ap, ad, aq, gp, gq} : r.exc # "none"
       THEN [NoReport EXCEPT !.exc = "AttributeError"]
       ELSE [exc |-> "none",
             model_type |-> model_spec,
             horizon |-> horizon,
             refit_arima |-> ap.val \o "," \o ad.val \o "," \o aq.val,
             refit_garch |-> gp.val \o "," \o gq.val,
             simulate_n |-> horizon]

(***************************************************************************)
(* Model documents handed to the formatter and the report.                 *)
(***************************************************************************)
OrderVals == {JInt(n) : n \in 0..MaxOrder} \cup {JNull}

\* Values that are not dicts.
NonMappings == {JNull, JInt(1), JStr(<<"x">>), JList(<<>>)}

ArimaObjs ==
    {MkObj(<< <<"p", a>>, <<"d", b>>, <<"q", c>> >>) :
        a \in OrderVals \cup {Absent}, b \in OrderVals \cup {Absent},
        c \in OrderVals \cup {Absent}}

GarchObjs ==
    {MkObj(<< <<"p", a>>, <<"q", b>> >>) :
        a \in OrderVals \cup {Absent}, b \in OrderVals \cup {Absent}}

SpecObjs ==
    {MkObj(<< <<"arima", a>>, <<"garch", g>> >>) :
        a \in ArimaObjs \cup NonMappings \cup {Absent},
        g \in GarchObjs \cup NonMappings \cup {Absent}}

ModelDocs ==
    NonMappings \cup
    {MkObj(<< <<"spec", s>>, <<"parameters", p>> >>) :
        s \in SpecObjs \cup NonMappings \cup {Absent}, p \in {EmptyObj, Absent}}

NoCall == [exc |-> "nocall", val |-> ""]
NoFile == [k |-> "nofile"]
NoResult == [exc |-> "nocall", msg |-> <<>>, io |-> <<>>, val |-> JNull]
NoLoaderCall == [fn |-> "", path |-> ""]
\* The global generator of numpy.random as the interpreter starts it: not
\* seeded by the program, nothing drawn yet.
FreshRng == [seeded |-> FALSE, seed |-> 0, draws |-> 0]
\* compensated_sum tells the interpreter apart: the builtin sum() adds floats
\* from the left before Python 3.12 and with a compensation term from 3.12
\* on; setup.py admits both (python_requires='>=3.8').
NoEnv ==
    [AG_EXECUTABLE |-> <<>>, PATH |-> <<>>, rng |-> FreshRng, compensated_sum |-> FALSE]
\* The same environment under an interpreter from Python 3.12 on.
Compensating(environ) == [environ EXCEPT !.compensated_sum = TRUE]
NoCli ==
    [cmd |-> "", markdown |-> FALSE, plot |-> JNull, pc |-> "idle", trace |-> <<>>,
     echo |-> <<>>, err |-> <<>>, exit |-> 0, data |-> JNull, model |-> JNull,
     plot_path |-> JNull]

\* The state outside a specification's scope stays at rest.
RestIdle ==
    /\ dirs = {}
    /\ diagnostics_json = JNull
    /\ env = NoEnv
    /\ cli = NoCli

(***************************************************************************)
(* Claims about the formatter.                                             *)
(***************************************************************************)
Formatted == fmt.exc # "nocall"

HasKey(d, key) == HasGet(d) /\ key \in DOMAIN d.o

\* C3 as stated: whenever the input has no `spec` key (the empty mapping
\* included), format_model_spec returns the sentinel "Unknown Model".
C3_Original ==
    (Formatted /\ ~HasKey(model_json, "spec")) => fmt.val = "Unknown Model"

\* C3 amended: a mapping without a `spec` key (the empty mapping included)
\* is formatted with every order defaulted to 0, "ARIMA(0,0,0)-GARCH(0,0)";
\* the sentinel is what a non-mapping input gets.
C3_Amended ==
    Formatted =>
        /\ (HasGet(model_json) /\ ~HasKey(model_json, "spec"))
               => fmt.val = "ARIMA(0,0,0)-GARCH(0,0)"
        /\ ~HasGet(model_json) => fmt.val = "Unknown Model"

C3_Witness ==
    /\ model_json = EmptyObj
    /\ Formatted
    /\ fmt.val = "ARIMA(0,0,0)-GARCH(0,0)"

\* The value at `key` of dict d is present and is not a dict.
BadAt(d, key) == HasKey(d, key) /\ ~HasGet(d.o[key])

\* A null or non-mapping value sits at the input itself, at spec, at
\* spec.arima or at spec.garch.
Malformed(mj) ==
    \/ ~HasGet(mj)
    \/ BadAt(mj, "spec")
    \/ /\ HasKey(mj, "spec") /\ HasGet(mj.o["spec"])
       /\ (BadAt(mj.o["spec"], "arima") \/ BadAt(mj.o["spec"], "garch"))

\* C4: format_model_spec never raises, whatever the input, and on an input
\* with a null or non-mapping value at the input, spec, arima or garch
\* position it returns the sentinel "Unknown Model".
C4_Total ==
    Formatted =>
        /\ fmt.exc = "none"
        /\ Malformed(model_json) => fmt.val = "Unknown Model"

C4_Witness ==
    /\ Formatted
    /\ HasKey(model_json, "spec")
    /\ HasGet(model_json.o["spec"])
    /\ BadAt(model_json.o["spec"], "garch")
    /\ fmt = Returned("Unknown Model")

\* What the formatted string shows for field `key` of sub-record rec.
Shown(rec, key) == IF key \in DOMAIN rec.o THEN PyStr(rec.o[key]) ELSE "0"

WellFormed(mj) ==
    /\ HasKey(mj, "spec") /\ HasGet(mj.o["spec"])
    /\ HasKey(mj.o["spec"], "arima") /\ HasGet(mj.o["spec"].o["arima"])
    /\ HasKey(mj.o["spec"], "garch") /\ HasGet(mj.o["spec"].o["garch"])

ExampleArima == MkObj(<< <<"p", JInt(1)>>, <<"d", JInt(0)>>, <<"q", JInt(1)>> >>)
ExampleGarch == MkObj(<< <<"p", JInt(1)>>, <<"q", JInt(1)>> >>)
ExampleSpec == MkObj(<< <<"arima", ExampleArima>>, <<"garch", ExampleGarch>> >>)
ExampleDoc == MkObj(<< <<"spec", ExampleSpec>>, <<"parameters", EmptyObj>> >>)

\* C5: when spec.arima and spec.garch are mappings the result is exactly
\* "ARIMA(p,d,q)-GARCH(p,q)" from arima.p, arima.d, arima.q, garch.p, garch.q
\* in that order with 0 for each absent field; arima{1,0,1}, garch{1,1}
\* gives "ARIMA(1,0,1)-GARCH(1,1)".
C5_Format ==
    (Formatted /\ WellFormed(model_json)) =>
        LET a == model_json.o["spec"].o["arima"]
            g == model_json.o["spec"].o["garch"]
        IN /\ fmt.val = "ARIMA(" \o Shown(a, "p") \o "," \o Shown(a, "d") \o ","
                          \o Shown(a, "q") \o ")-GARCH(" \o Shown(g, "p") \o ","
                          \o Shown(g, "q") \o ")"
           /\ model_json = ExampleDoc => fmt.val = "ARIMA(1,0,1)-GARCH(1,1)"

\* arima{p:1, q:1} without d, garch{1,1}: the absent d is shown as 0.
C5_Witness ==
    /\ Formatted /\ WellFormed(model_json)
    /\ model_json.o["spec"].o["arima"] = MkObj(<< <<"p", JInt(1)>>, <<"q", JInt(1)>> >>)
    /\ model_json.o["spec"].o["garch"] = ExampleGarch
    /\ fmt.val = "ARIMA(1,0,1)-GARCH(1,1)"

\* C6: in a forecast report that was produced for a document holding both
\* top-level keys, the orders in the Model Type string are the orders in the
\* suggested refit command "-a p,d,q -g p,q" (absent fields shown as 0 in
\* both places).
C6_SameOrders ==
    (report.exc = "none" /\ HasKey(model_json, "spec") /\ HasKey(model_json, "parameters")) =>
        report.model_type =
            "ARIMA(" \o report.refit_arima \o ")-GARCH(" \o report.refit_garch \o ")"

(***************************************************************************)
(* Files.  A JSON file holds a JSON text: a syntax tree whose objects are   *)
(* member lists (a key may repeat), or text that is not JSON.  A CSV file  *)
(* holds a header line and the lines after it, some of them blank; it may  *)
(* also be zero bytes long or have lines the tokenizer rejects.            *)
(***************************************************************************)
TLit(name) == [t |-> "lit", name |-> name]
TNum(n) == [t |-> "num", n |-> n]
TStr(chars) == [t |-> "str", chars |-> chars]
TArr(items) == [t |-> "arr", items |-> items]
TObj(members) == [t |-> "obj", members |-> members]
TBad == [t |-> "bad"]

JsonFile(text) == [k |-> "json", text |-> text]

Blank == [k |-> "blank"]
Row(cells) == [k |-> "row", cells |-> cells]
CsvFile(header, lines) == [k |-> "csv", header |-> header, lines |-> lines]
ZeroByteFile == [k |-> "zerobytes"]
RaggedCsvFile == [k |-> "ragged"]
\* A line whose cells are text, not numbers.
TextRow(cells) == [k |-> "row", cells |-> cells, dtype |-> "object"]

SpecChars == <<"s", "p", "e", "c">>
ParametersChars == <<"p", "a", "r", "a", "m", "e", "t", "e", "r", "s">>

\* Sequences over S of length 0..n.
SeqUpTo(S, n) == UNION {[1..m -> S] : m \in 0..n}

\* The value texts found under a key of an object text.
MemberTexts == {TLit("null"), TObj(<<>>)}
MemberKeys == {"spec", "parameters", "invalid"}

JsonTexts ==
    {TBad, TLit("null"), TLit("true"), TNum(5),
     TStr(<<"x">>), TStr(SpecChars), TStr(SpecChars \o <<" ">> \o ParametersChars),
     TArr(<<>>), TArr(<<TStr(SpecChars)>>),
     TArr(<<TStr(SpecChars), TStr(ParametersChars)>>)}
    \cup {TObj(ms) : ms \in SeqUpTo(MemberKeys \X MemberTexts, MaxMembers)}

JsonFiles == {JsonFile(t) : t \in JsonTexts}

\* The subsequences of s, in the order of s.
RECURSIVE SubSeqs(_)
SubSeqs(s) ==
    IF s = <<>> THEN {<<>>}
    ELSE LET rest == SubSeqs(Tail(s)) IN rest \cup {<<Head(s)>> \o r : r \in rest}

SimColumns == <<"path", "observation", "return", "volatility">>
SeriesColumns == <<"value">>

ZeroRow(header) == Row([c \in Range(header) |-> 0])

SeriesFiles ==
    {CsvFile(SeriesColumns, ls) : ls \in SeqUpTo({Blank, ZeroRow(SeriesColumns)}, MaxLines)}

ForecastFiles ==
    {CsvFile(h, [i \in 1..n |-> Row(RowWith(h, "step", i))]) :
        h \in SubSeqs(ForecastColumns) \ {<<>>}, n \in 0..1}

SimulationFiles ==
    {CsvFile(h, <<ZeroRow(h)>>) : h \in SubSeqs(SimColumns) \ {<<>>, SimColumns}}
    \cup {CsvFile(SimColumns, ls) :
            ls \in SeqUpTo({Blank} \cup {Row(RowWith(SimColumns, "path", i)) : i \in 0..MaxPathId},
                           MaxLines)}

\* A one-column file of labels.
LabelColumns == <<"label">>
TextFiles == {CsvFile(LabelColumns, <<TextRow([c \in Range(LabelColumns) |-> "abc"])>>)}

CsvFiles ==
    {ZeroByteFile, RaggedCsvFile} \cup SeriesFiles \cup ForecastFiles \cup SimulationFiles
        \cup TextFiles

CsvPath == "in.csv"
JsonPath == "in.json"
Paths == {CsvPath, JsonPath}

(***************************************************************************)
(* The parsers the loaders call.                                           *)
(***************************************************************************)
Ok(v) == [exc |-> "none", msg |-> <<>>, val |-> v]
Raise(e, m) == [exc |-> e, msg |-> m, val |-> JNull]

\* json.load on a well-formed text: an object becomes a dict in which the
\* last member of a repeated key wins, the key staying where it first stood.
RECURSIVE Decode(_)
Decode(t) ==
    CASE t.t = "lit" -> IF t.name = "null" THEN JNull ELSE JBool(t.name = "true")
      [] t.t = "num" -> JInt(t.n)
      [] t.t = "str" -> JStr(t.chars)
      [] t.t = "arr" -> JList([i \in DOMAIN t.items |-> Decode(t.items[i])])
      [] t.t = "obj" ->
            LET keys == {t.members[i][1] : i \in DOMAIN t.members}
                last(key) == CHOOSE i \in DOMAIN t.members :
                                /\ t.members[i][1] = key
                                /\ \A j \in DOMAIN t.members : t.members[j][1] = key => j <= i
                firsts == SelectSeq([i \in DOMAIN t.members |-> i],
                                    LAMBDA i : \A j \in 1..(i - 1) :
                                                  t.members[j][1] # t.members[i][1])
            IN JObj([key \in keys |-> Decode(t.members[last(key)][2])],
                    [n \in DOMAIN firsts |-> t.members[firsts[n]][1]])

json_load(file) ==
    IF file.text.t = "bad" THEN Raise("JSONDecodeError", <<"Expecting", "value">>)
    ELSE Ok(Decode(file.text))

\* pd.read_csv with its defaults: blank lines are skipped, the first line is
\* the header, every other line is a row.
read_csv(file) ==
    CASE file.k = "zerobytes" ->
            Raise("EmptyDataError", <<"No", "columns", "to", "parse", "from", "file">>)
      [] file.k = "ragged" -> Raise("ParserError", <<"Error", "tokenizing", "data">>)
      [] file.k = "csv" ->
            LET rows == SelectSeq(file.lines, LAMBDA l : l.k = "row")
                cells == [i \in DOMAIN rows |-> rows[i].cells]
            IN IF \E i \in DOMAIN rows : "dtype" \in DOMAIN rows[i]
               THEN Ok(ObjectFrame(file.header, cells))
               ELSE Ok(DataFrame(file.header, cells))

\* DataFrame.empty
Empty(df) == Len(df.columns) = 0 \/ Len(df.rows) = 0

\* s occurs in t as a contiguous run.
IsInfix(s, t) == \E i \in 0..(Len(t) - Len(s)) : SubSeq(t, i + 1, i + Len(s)) = s

\* `key in model`: a key of a dict, an element of a list, a substring of a
\* str; any other value raises TypeError.
PyTypeName(v) == CASE v.k = "int" -> "'int'" [] v.k = "bool" -> "'bool'" [] v.k = "null" -> "'NoneType'"

In(key, chars, v) ==
    CASE v.k = "obj" -> Ok(key \in DOMAIN v.o)
      [] v.k = "list" -> Ok(\E i \in DOMAIN v.l : v.l[i] = JStr(chars))
      [] v.k = "str" -> Ok(IsInfix(chars, v.s))
      [] OTHER -> Raise("TypeError",
                        <<"argument", "of", "type", PyTypeName(v), "is", "not", "iterable">>)

(***************************************************************************)
(* The five loaders (io.py).  An outcome holds the exception type ("none"  *)
(* for a return), the message as a list of words, the file-system          *)
(* operations performed in order, and the returned value.                  *)
(***************************************************************************)
Out(exc, msg, io, val) == [exc |-> exc, msg |-> msg, io |-> io, val |-> val]

NotFound(what, filepath) ==
    Out("FileNotFoundError", <<what, "file", "not", "found", ":", filepath>>, <<"exists">>, JNull)

\* raise ValueError(f"Error loading <what> file {filepath}: {e}")
Wrapped(what, filepath, inner, io) ==
    Out("ValueError", <<"Error", "loading", what, "file", filepath, ":">> \o inner, io, JNull)

\* A loader whose existence test sits inside the try block: the blanket
\* except clause turns the not-found error into a ValueError.
load_csv_data_check_in_try(files, filepath) ==
    IF files[filepath] = NoFile
    THEN Wrapped("CSV", filepath, <<"CSV", "file", "not", "found", ":", filepath>>, <<"exists">>)
    ELSE LET r == read_csv(files[filepath]) IN
         IF r.exc # "none" THEN Wrapped("CSV", filepath, r.msg, <<"exists", "read_csv">>)
         ELSE IF Empty(r.val)
              THEN Wrapped("CSV", filepath, <<"CSV", "file", "is", "empty", ":", filepath>>,
                           <<"exists", "read_csv">>)
              ELSE Out("none", <<>>, <<"exists", "read_csv">>, r.val)

\* A loader without the df.empty test.
load_csv_data_no_empty_test(files, filepath) ==
    IF files[filepath] = NoFile THEN NotFound("CSV", filepath)
    ELSE LET r == read_csv(files[filepath]) IN
         IF r.exc # "none" THEN Wrapped("CSV", filepath, r.msg, <<"exists", "read_csv">>)
         ELSE Out("none", <<>>, <<"exists", "read_csv">>, r.val)

load_csv_data(files, filepath) ==
    IF files[filepath] = NoFile THEN NotFound("CSV", filepath)
    ELSE LET r == read_csv(files[filepath]) IN
         IF r.exc # "none" THEN Wrapped("CSV", filepath, r.msg, <<"exists", "read_csv">>)
         ELSE IF Empty(r.val)
              THEN Wrapped("CSV", filepath, <<"CSV", "file", "is", "empty", ":", filepath>>,
                           <<"exists", "read_csv">>)
              ELSE Out("none", <<>>, <<"exists", "read_csv">>, r.val)

load_model_json(files, filepath) ==
    IF files[filepath] = NoFile THEN NotFound("Model", filepath)
    ELSE LET io == <<"exists", "open", "json.load">>
             r == json_load(files[filepath]) IN
         IF r.exc = "JSONDecodeError"
         THEN Out("ValueError",
                  <<"Invalid", "JSON", "in", "model", "file", filepath, ":">> \o r.msg, io, JNull)
         ELSE LET model == r.val
                  has_spec == In("spec", SpecChars, model) IN
              IF has_spec.exc # "none" THEN Wrapped("model", filepath, has_spec.msg, io)
              ELSE IF ~has_spec.val
                   THEN Wrapped("model", filepath,
                                <<"Model", "JSON", "missing", "'spec'", "field">>, io)
                   ELSE LET has_parameters == In("parameters", ParametersChars, model) IN
                        IF has_parameters.exc # "none"
                        THEN Wrapped("model", filepath, has_parameters.msg, io)
                        ELSE IF ~has_parameters.val
                             THEN Wrapped("model", filepath,
                                          <<"Model", "JSON", "missing", "'parameters'", "field">>,
                                          io)
                             ELSE Out("none", <<>>, io, model)

\* The missing-columns message: the words, then the list of names.
MissingColumns(what, missing_cols) ==
    <<what, "CSV", "missing", "required", "columns", ":", "[">> \o missing_cols \o <<"]">>

\* [col for col in required_cols if col not in df.columns]
MissingCols(required_cols, df) == SelectSeq(required_cols, LAMBDA col : col \notin Range(df.columns))

\* A forecast loader that also requires the variance column.
load_forecast_csv_requires_variance(files, filepath) ==
    IF files[filepath] = NoFile THEN NotFound("Forecast", filepath)
    ELSE LET io == <<"exists", "read_csv">>
             r == read_csv(files[filepath]) IN
         IF r.exc # "none" THEN Wrapped("forecast", filepath, r.msg, io)
         ELSE LET missing_cols == MissingCols(<<"step", "mean", "variance", "std_dev">>, r.val) IN
              IF missing_cols # <<>>
              THEN Wrapped("forecast", filepath, MissingColumns("Forecast", missing_cols), io)
              ELSE Out("none", <<>>, io, r.val)

load_forecast_csv(files, filepath) ==
    IF files[filepath] = NoFile THEN NotFound("Forecast", filepath)
    ELSE LET io == <<"exists", "read_csv">>
             r == read_csv(files[filepath]) IN
         IF r.exc # "none" THEN Wrapped("forecast", filepath, r.msg, io)
         ELSE LET required_cols == <<"step", "mean", "std_dev">>
                  missing_cols == MissingCols(required_cols, r.val) IN
              IF missing_cols # <<>>
              THEN Wrapped("forecast", filepath, MissingColumns("Forecast", missing_cols), io)
              ELSE Out("none", <<>>, io, r.val)

\* A diagnostics loader that answers the empty document for a missing file.
load_diagnostics_json_default_empty(files, filepath) ==
    IF files[filepath] = NoFile THEN Out("none", <<>>, <<"exists">>, EmptyObj)
    ELSE LET io == <<"exists", "open", "json.load">>
             r == json_load(files[filepath]) IN
         IF r.exc = "JSONDecodeError"
         THEN Out("ValueError",
                  <<"Invalid", "JSON", "in", "diagnostics", "file", filepath, ":">> \o r.msg,
                  io, JNull)
         ELSE Out("none", <<>>, io, r.val)

load_diagnostics_json(files, filepath) ==
    IF files[filepath] = NoFile THEN NotFound("Diagnostics", filepath)
    ELSE LET io == <<"exists", "open", "json.load">>
             r == json_load(files[filepath]) IN
         IF r.exc = "JSONDecodeError"
         THEN Out("ValueError",
                  <<"Invalid", "JSON", "in", "diagnostics", "file", filepath, ":">> \o r.msg,
                  io, JNull)
         ELSE Out("none", <<>>, io, r.val)

\* df[col].nunique()
NUnique(df, col) == Cardinality({df.rows[i][col] : i \in DOMAIN df.rows})

\* df.groupby(col).size(): the groups in ascending key order, each with its
\* number of rows.
GroupSizes(df, col) ==
    LET keys == {df.rows[i][col] : i \in DOMAIN df.rows}
        size(key) == Cardinality({i \in DOMAIN df.rows : df.rows[i][col] = key})
        \* the n-th smallest key
        nth(n) == CHOOSE key \in keys : Cardinality({x \in keys : x < key}) = n - 1
    IN [n \in 1..Cardinality(keys) |-> [key |-> nth(n), size |-> size(nth(n))]]

\* groupby(col, sort=False): the groups in order of first appearance.
GroupSizesUnsorted(df, col) ==
    LET keys == {df.rows[i][col] : i \in DOMAIN df.rows}
        size(key) == Cardinality({i \in DOMAIN df.rows : df.rows[i][col] = key})
        first(key) == CHOOSE i \in DOMAIN df.rows :
                         df.rows[i][col] = key /\ \A j \in 1..(i - 1) : df.rows[j][col] # key
        nth(n) == CHOOSE key \in keys :
                     Cardinality({x \in keys : first(x) < first(key)}) = n - 1
    IN [n \in 1..Cardinality(keys) |-> [key |-> nth(n), size |-> size(nth(n))]]

SimResult(df, n_paths, n_obs_per_path) ==
    [k |-> "tuple", df |-> df, n_paths |-> n_paths, n_obs_per_path |-> n_obs_per_path]

\* A panel loader that takes the group of the first row as the first group.
parse_simulation_csv_first_seen(files, filepath) ==
    IF files[filepath] = NoFile THEN NotFound("Simulation", filepath)
    ELSE LET io == <<"exists", "read_csv">>
             r == read_csv(files[filepath]) IN
         IF r.exc # "none" THEN Wrapped("simulation", filepath, r.msg, io)
         ELSE LET df == r.val
                  missing_cols == MissingCols(SimColumns, df) IN
              IF missing_cols # <<>>
              THEN Wrapped("simulation", filepath, MissingColumns("Simulation", missing_cols), io)
              ELSE LET sizes == GroupSizesUnsorted(df, "path") IN
                   IF sizes = <<>>
                   THEN Wrapped("simulation", filepath,
                                <<"single", "positional", "indexer", "is", "out-of-bounds">>, io)
                   ELSE Out("none", <<>>, io, SimResult(df, NUnique(df, "path"), sizes[1].size))

parse_simulation_csv(files, filepath) ==
    IF files[filepath] = NoFile THEN NotFound("Simulation", filepath)
    ELSE LET io == <<"exists", "read_csv">>
             r == read_csv(files[filepath]) IN
         IF r.exc # "none" THEN Wrapped("simulation", filepath, r.msg, io)
         ELSE LET df == r.val
                  required_cols == SimColumns
                  missing_cols == MissingCols(required_cols, df) IN
              IF missing_cols # <<>>
              THEN Wrapped("simulation", filepath, MissingColumns("Simulation", missing_cols), io)
              ELSE LET n_paths == NUnique(df, "path")
                       sizes == GroupSizes(df, "path") IN
                   \* .iloc[0] of an empty series raises IndexError
                   IF sizes = <<>>
                   THEN Wrapped("simulation", filepath,
                                <<"single", "positional", "indexer", "is", "out-of-bounds">>, io)
                   ELSE Out("none", <<>>, io, SimResult(df, n_paths, sizes[1].size))

(***************************************************************************)
(* The loaders applied to a file system that holds at most one CSV file    *)
(* and one JSON file.  A loader is given a missing path or a file of the   *)
(* format it reads.                                                        *)
(***************************************************************************)
InitIO ==
    /\ fs \in [Paths -> CsvFiles \cup JsonFiles \cup {NoFile}]
    /\ fs[CsvPath] \in CsvFiles \cup {NoFile}
    /\ fs[JsonPath] \in JsonFiles \cup {NoFile}
    /\ call = NoLoaderCall
    /\ result = NoResult
    /\ model_json = JNull
    /\ fmt = NoCall
    /\ report = NoReport
    /\ RestIdle

Reads(filepath, format) == fs[filepath] = NoFile \/ filepath = format

Loader(fn, filepath, outcome) ==
    /\ call' = [fn |-> fn, path |-> filepath]
    /\ result' = outcome
    /\ UNCHANGED <<fs, model_json, fmt, report, outside>>

LoadCsvData ==
    \E filepath \in Paths :
        /\ Reads(filepath, CsvPath)
        /\ Loader("load_csv_data", filepath, load_csv_data(fs, filepath))

LoadModelJson ==
    \E filepath \in Paths :
        /\ Reads(filepath, JsonPath)
        /\ Loader("load_model_json", filepath, load_model_json(fs, filepath))

LoadForecastCsv ==
    \E filepath \in Paths :
        /\ Reads(filepath, CsvPath)
        /\ Loader("load_forecast_csv", filepath, load_forecast_csv(fs, filepath))

LoadDiagnosticsJson ==
    \E filepath \in Paths :
        /\ Reads(filepath, JsonPath)
        /\ Loader("load_diagnostics_json", filepath, load_diagnostics_json(fs, filepath))

ParseSimulationCsv ==
    \E filepath \in Paths :
        /\ Reads(filepath, CsvPath)
        /\ Loader("parse_simulation_csv", filepath, parse_simulation_csv(fs, filepath))

NextIO ==
    \/ LoadCsvData
    \/ LoadModelJson
    \/ LoadForecastCsv
    \/ LoadDiagnosticsJson
    \/ ParseSimulationCsv

SpecIO == InitIO /\ [][NextIO]_vars

(***************************************************************************)
(* Claims about the loaders.                                               *)
(***************************************************************************)
LoaderNames ==
    {"load_csv_data", "load_model_json", "load_forecast_csv", "load_diagnostics_json",
     "parse_simulation_csv"}

\* The file the last loader call was given.
Given == fs[call.path]

HasWord(msg, word) == word \in Range(msg)

\* C1: each of the five loaders, given a path that does not exist, raises
\* FileNotFoundError, not ValueError, and has only tested for existence:
\* nothing was opened, read or parsed.
C1_NotFoundFirst ==
    (call.fn \in LoaderNames /\ Given = NoFile) =>
        /\ result.exc = "FileNotFoundError"
        /\ result.exc # "ValueError"
        /\ result.io = <<"exists">>

C1_Witness ==
    /\ call.fn = "parse_simulation_csv"
    /\ Given = NoFile
    /\ result.exc = "FileNotFoundError"
    /\ HasWord(result.msg, call.path)

Decodable(file) == file.k = "json" /\ file.text.t # "bad"

\* C2 as stated: a decodable model document without `spec` or without
\* `parameters` makes load_model_json raise ValueError with "missing" in the
\* message; a document with both keys is returned unchanged.
C2_Claim ==
    (call.fn = "load_model_json" /\ Decodable(Given)) =>
        LET doc == Decode(Given.text) IN
        IF HasKey(doc, "spec") /\ HasKey(doc, "parameters")
        THEN result.exc = "none" /\ result.val = doc
        ELSE result.exc = "ValueError" /\ HasWord(result.msg, "missing")

\* The lines of a CSV file that hold data.
DataLines(file) == {i \in DOMAIN file.lines : file.lines[i].k = "row"}

\* C7: load_csv_data on a file with a header and n data lines returns a
\* table of n rows when n >= 1 and raises ValueError with "empty" in the
\* message when n = 0.
C7_RowCount ==
    (call.fn = "load_csv_data" /\ Given.k = "csv") =>
        LET n == Cardinality(DataLines(Given)) IN
        IF n >= 1
        THEN result.exc = "none" /\ Len(result.val.rows) = n
        ELSE result.exc = "ValueError" /\ HasWord(result.msg, "empty")

C7_Witness ==
    /\ call.fn = "load_csv_data"
    /\ Given.k = "csv"
    /\ Len(Given.lines) = 3
    /\ Cardinality(DataLines(Given)) = 2
    /\ result.exc = "none"
    /\ Len(result.val.rows) = 2

MissingColumnsError(r) ==
    r.exc = "ValueError" /\ IsInfix(<<"missing", "required", "columns">>, r.msg)

\* The names a missing-columns message lists, in order.
Listed(msg) ==
    LET open == CHOOSE i \in DOMAIN msg : msg[i] = "["
        close == CHOOSE i \in DOMAIN msg : msg[i] = "]"
    IN SubSeq(msg, open + 1, close - 1)

AbsentOf(required, file) == {c \in required : c \notin Range(file.header)}

ForecastRequired == {"step", "mean", "std_dev"}

\* C8: load_forecast_csv raises the "missing required columns" ValueError
\* exactly when one of step, mean, std_dev is not a column of the file; the
\* message then lists each absent required column once and nothing else;
\* a file that lacks only variance is loaded.
C8_ForecastColumns ==
    call.fn = "load_forecast_csv" =>
        /\ MissingColumnsError(result) <=>
               (Given.k = "csv" /\ AbsentOf(ForecastRequired, Given) # {})
        /\ MissingColumnsError(result) =>
               /\ Range(Listed(result.msg)) = AbsentOf(ForecastRequired, Given)
               /\ Len(Listed(result.msg)) = Cardinality(AbsentOf(ForecastRequired, Given))
        /\ (Given.k = "csv" /\ Given.header = <<"step", "mean", "std_dev">>) =>
               result.exc = "none"

C8_Witness ==
    /\ call.fn = "load_forecast_csv"
    /\ Given.k = "csv"
    /\ Given.header = <<"mean", "variance">>
    /\ MissingColumnsError(result)
    /\ Listed(result.msg) = <<"step", "std_dev">>

\* The path identifier of each data line of a panel file.
PathOf(file, i) == file.lines[i].cells["path"]

PathIds(file) == {PathOf(file, i) : i \in DataLines(file)}

\* The number of data lines of the group with the least path identifier.
FirstGroupCount(file) ==
    LET least == CHOOSE p \in PathIds(file) : \A q \in PathIds(file) : p <= q
    IN Cardinality({i \in DataLines(file) : PathOf(file, i) = least})

\* C9: parse_simulation_csv raises ValueError when one of path, observation,
\* return, volatility is not a column; when it returns, the path count is the
\* number of distinct path values and the per-path count is the row count of
\* the first path group (the group of the least path identifier), and any
\* panel with all four columns and at least one row is accepted, equal
\* group sizes or not.
C9_Panel ==
    (call.fn = "parse_simulation_csv" /\ Given.k = "csv") =>
        /\ AbsentOf(Range(SimColumns), Given) # {} => result.exc = "ValueError"
        /\ result.exc = "none" =>
               /\ result.val.n_paths = Cardinality(PathIds(Given))
               /\ result.val.n_obs_per_path = FirstGroupCount(Given)
        /\ (AbsentOf(Range(SimColumns), Given) = {} /\ DataLines(Given) # {}) =>
               result.exc = "none"

\* Rows of paths 1, 0, 1: not rectangular, not sorted.
C9_Witness ==
    /\ call.fn = "parse_simulation_csv"
    /\ Given.k = "csv"
    /\ Given.header = SimColumns
    /\ Len(Given.lines) = 3
    /\ DataLines(Given) = {1, 2, 3}
    /\ <<PathOf(Given, 1), PathOf(Given, 2), PathOf(Given, 3)>> = <<1, 0, 1>>
    /\ result.exc = "none"
    /\ result.val.n_paths = 2
    /\ result.val.n_obs_per_path = 1

\* C10: load_diagnostics_json returns the decoded document of any file that
\* holds JSON, `{}` included, whatever its keys, and raises
\* FileNotFoundError for a missing file: the two outcomes differ.
C10_Diagnostics ==
    call.fn = "load_diagnostics_json" =>
        /\ Decodable(Given) => (result.exc = "none" /\ result.val = Decode(Given.text))
        /\ Given = JsonFile(TObj(<<>>)) => (result.exc = "none" /\ result.val = EmptyObj)
        /\ Given = NoFile => result.exc = "FileNotFoundError"

C10_Witness ==
    /\ call.fn = "load_diagnostics_json"
    /\ Given = JsonFile(TObj(<<>>))
    /\ result.exc = "none"
    /\ result.val = EmptyObj

\* C11: when a model document (a JSON object) lacks both `spec` and
\* `parameters`, the error load_model_json raises names both missing keys.
C11_NamesEveryMissingKey ==
    (call.fn = "load_model_json" /\ Decodable(Given)
        /\ HasGet(Decode(Given.text))
        /\ ~HasKey(Decode(Given.text), "spec")
        /\ ~HasKey(Decode(Given.text), "parameters")) =>
        /\ result.exc = "ValueError"
        /\ HasWord(result.msg, "'spec'")
        /\ HasWord(result.msg, "'parameters'")

\* ---------------------------------------------------------------------------
\* Locating and running the external executable (utils.py)
\* ---------------------------------------------------------------------------

\* A path as a Python value.
JPath(p) == [k |-> "path", p |-> p]

\* An installed executable file.
ExeFile == [k |-> "exe"]

\* The location named by AG_EXECUTABLE in the runs considered.
EnvExe == "/opt/ag"

\* The one directory the PATH variable may list.
BinDir == "/usr/bin"

\* Path(__file__).parent.parent.parent of ag_viz/utils.py.
package_dir == "src"

\* The build locations, in the order the code probes them.
common_locations ==
    << package_dir \o "/build/src/ag",
       package_dir \o "/build/Release/src/ag",
       package_dir \o "/build/Debug/src/ag" >>

ExePaths == {EnvExe, BinDir \o "/ag"} \cup Range(common_locations)

\* os.environ.get(name): None when the variable is unset.  A variable is held
\* as a sequence of at most one value.
environ_get(environ, name) ==
    IF environ[name] = <<>> THEN JNull ELSE JPath(environ[name][1])

\* Path(p).exists(): the empty string is the current directory.
PathExists(files, p) ==
    \/ p = ""
    \/ p \in DOMAIN files /\ files[p] # NoFile

\* shutil.which("ag"): the first directory of PATH holding an executable ag.
which(environ, files) ==
    LET hits == SelectSeq(environ.PATH,
                    LAMBDA d : (d \o "/ag") \in DOMAIN files
                                /\ files[d \o "/ag"] = ExeFile)
    IN IF hits = <<>> THEN JNull ELSE JPath(hits[1] \o "/ag")

\* The first existing build location, or None.
FirstLocation(files) ==
    LET hits == SelectSeq(common_locations, LAMBDA l : PathExists(files, l))
    IN IF hits = <<>> THEN JNull ELSE JPath(hits[1])

\* Variant: a set AG_EXECUTABLE that names nothing ends the search.
find_ag_executable_env_final(environ, files) ==
    LET env_path == environ_get(environ, "AG_EXECUTABLE")
        ag_path == which(environ, files)
    IN  IF env_path # JNull /\ env_path.p # ""
        THEN IF PathExists(files, env_path.p) THEN env_path ELSE JNull
        ELSE IF ag_path # JNull THEN ag_path
        ELSE FirstLocation(files)

find_ag_executable(environ, files) ==
    LET env_path == environ_get(environ, "AG_EXECUTABLE")
        ag_path == which(environ, files)
    IN  IF env_path # JNull /\ env_path.p # "" /\ PathExists(files, env_path.p)
        THEN env_path
        ELSE IF ag_path # JNull THEN ag_path
        ELSE FirstLocation(files)

\* The exit codes the external executable may end with.
ReturnCodes == {0, 1, 2}

\* run_ag_command(args, check), the process ending with `returncode` when it
\* is started.  `io` lists the processes started; `val` is the completed
\* process's return code.
run_ag_command(environ, files, check, returncode) ==
    LET ag_exec == find_ag_executable(environ, files)
    IN  IF ag_exec = JNull
        THEN Out("RuntimeError", <<"ag", "executable", "not", "found">>, <<>>, JNull)
        ELSE IF check /\ returncode # 0
        THEN Out("RuntimeError",
                 <<"ag", "command", "failed", "with", "exit", "code",
                   ToString(returncode)>>,
                 <<"subprocess.run">>, JNull)
        ELSE Out("none", <<>>, <<"subprocess.run">>, JInt(returncode))

\* The environments considered: AG_EXECUTABLE unset, empty or naming EnvExe;
\* PATH empty or listing BinDir.
Environs ==
    [AG_EXECUTABLE : {<<>>, <<"">>, <<EnvExe>>}, PATH : {<<>>, <<BinDir>>},
     rng : {FreshRng}, compensated_sum : {FALSE}]

InitExec ==
    /\ env \in Environs
    /\ fs \in [ExePaths -> {NoFile, ExeFile}]
    /\ call = NoLoaderCall
    /\ result = NoResult
    /\ model_json = JNull
    /\ fmt = NoCall
    /\ report = NoReport
    /\ dirs = {}
    /\ diagnostics_json = JNull
    /\ cli = NoCli

FindAgExecutable ==
    /\ call' = [fn |-> "find_ag_executable", path |-> ""]
    /\ result' = Out("none", <<>>, <<>>, find_ag_executable(env, fs))
    /\ UNCHANGED <<model_json, fmt, report, fs, dirs, diagnostics_json, env, cli>>

RunAgCommand ==
    \E check \in BOOLEAN, returncode \in ReturnCodes :
        /\ call' = [fn |-> "run_ag_command", path |-> "",
                    check |-> check, returncode |-> returncode]
        /\ result' = run_ag_command(env, fs, check, returncode)
        /\ UNCHANGED <<model_json, fmt, report, fs, dirs, diagnostics_json, env, cli>>

NextExec == FindAgExecutable \/ RunAgCommand

SpecExec == InitExec /\ [][NextExec]_vars

\* An executable is installed at p.
Installed(p) == p \in DOMAIN fs /\ fs[p] = ExeFile

\* The documented candidates in priority order: the value of AG_EXECUTABLE,
\* ag in each PATH directory, then the three build locations.
Candidates ==
    env.AG_EXECUTABLE
        \o [i \in 1..Len(env.PATH) |-> env.PATH[i] \o "/ag"]
        \o common_locations

FirstHit ==
    LET hits == SelectSeq(Candidates, Installed)
    IN IF hits = <<>> THEN JNull ELSE JPath(hits[1])

\* C19: run_ag_command raises RuntimeError, starting no process, when the
\* executable cannot be found; when found and the command exits non-zero it
\* raises CalledProcessError if check is set, and returns the completed
\* process with its return code if check is unset.
C19_RunAgCommand ==
    call.fn = "run_ag_command" =>
        IF find_ag_executable(env, fs) = JNull
        THEN result.exc = "RuntimeError" /\ result.io = <<>>
        ELSE IF call.returncode # 0 /\ call.check
        THEN result.exc = "CalledProcessError"
        ELSE call.returncode # 0 =>
                result.exc = "none" /\ result.val = JInt(call.returncode)

\* C20: find_ag_executable returns the first hit in the documented order
\* (AG_EXECUTABLE, ag on PATH, build/src/ag, build/Release/src/ag,
\* build/Debug/src/ag), None only when there is no hit, and a set but
\* nonexistent AG_EXECUTABLE does not stop the search.
C20_FirstHit ==
    call.fn = "find_ag_executable" =>
        /\ result.exc = "none"
        /\ result.val = FirstHit
        /\ (result.val = JNull) = (\A i \in 1..Len(Candidates) : ~Installed(Candidates[i]))

\* AG_EXECUTABLE names a missing file, ag is not on the PATH, and the search
\* went on to return the second build location.
C20_Witness ==
    /\ call.fn = "find_ag_executable"
    /\ env.AG_EXECUTABLE = <<EnvExe>>
    /\ ~Installed(EnvExe)
    /\ which(env, fs) = JNull
    /\ ~Installed(common_locations[1])
    /\ result.val = JPath(common_locations[2])

\* ---------------------------------------------------------------------------
\* Paths and the disk
\* ---------------------------------------------------------------------------

\* A relative pathlib.Path of a file: the names of its parent directories, its
\* final component, and the characters of the final component's suffix.
MkPath(parent, stem, suffix) ==
    [parent |-> parent, name |-> stem \o Join(suffix), suffix |-> suffix]

RECURSIVE DirStr(_)
\* str() of a directory path; the current directory is "".
DirStr(parts) ==
    IF parts = <<>> THEN ""
    ELSE IF Len(parts) = 1 THEN parts[1]
    ELSE DirStr(SubSeq(parts, 1, Len(parts) - 1)) \o "/" \o parts[Len(parts)]

\* str(path)
PathStr(path) ==
    IF path.parent = <<>> THEN path.name ELSE DirStr(path.parent) \o "/" \o path.name

\* The directory and every ancestor of it below the current directory.
Ancestors(parts) == {DirStr(SubSeq(parts, 1, i)) : i \in 1..Len(parts)}

\* Path.exists() of a directory.
DirExists(directories, parts) == parts = <<>> \/ DirStr(parts) \in directories

\* Path.mkdir(parents=True, exist_ok=True)
mkdir_parents(directories, parts) == directories \cup Ancestors(parts)

\* Path.exists() of a file path.
FileExists(files, path) ==
    PathStr(path) \in DOMAIN files /\ files[PathStr(path)] # NoFile

TextFile(text) == [k |-> "text", text |-> text]
ImageFile(bytes) == [k |-> "image", bytes |-> bytes]

\* The outcome of an operation that changes the disk: the outcome proper, the
\* files and the directories after it.
Effect(out, files, directories) == [out |-> out, files |-> files, dirs |-> directories]

\* Variant: the file is opened in append mode, so earlier content stays.
write_file_append(files, directories, path, content) ==
    IF ~DirExists(directories, path.parent)
    THEN Effect(Out("FileNotFoundError",
                    <<"No", "such", "file", "or", "directory", ":", PathStr(path)>>,
                    <<>>, JNull),
                files, directories)
    ELSE Effect(Out("none", <<>>, <<PathStr(path)>>, JPath(PathStr(path))),
                [files EXCEPT ![PathStr(path)] =
                    IF files[PathStr(path)] = NoFile THEN content
                    ELSE [k |-> "text", text |-> content.text,
                          after |-> files[PathStr(path)]]],
                directories)

\* open(path, 'w') then f.write(content): the parent directory must exist;
\* the file is created or truncated, then holds `content` alone.
write_file(files, directories, path, content) ==
    IF ~DirExists(directories, path.parent)
    THEN Effect(Out("FileNotFoundError",
                    <<"No", "such", "file", "or", "directory", ":", PathStr(path)>>,
                    <<>>, JNull),
                files, directories)
    ELSE Effect(Out("none", <<>>, <<PathStr(path)>>, JPath(PathStr(path))),
                [files EXCEPT ![PathStr(path)] = content], directories)

\* ---------------------------------------------------------------------------
\* Image references (markdown_reports.py)
\* ---------------------------------------------------------------------------

B64Alphabet ==
    << "A","B","C","D","E","F","G","H","I","J","K","L","M","N","O","P",
       "Q","R","S","T","U","V","W","X","Y","Z","a","b","c","d","e","f",
       "g","h","i","j","k","l","m","n","o","p","q","r","s","t","u","v",
       "w","x","y","z","0","1","2","3","4","5","6","7","8","9","+","/" >>

B64Char(n) == B64Alphabet[n + 1]

RECURSIVE b64encode(_)
\* base64.b64encode(image_data).decode('utf-8')
b64encode(bytes) ==
    CASE Len(bytes) = 0 -> ""
      [] Len(bytes) = 1 ->
            B64Char(bytes[1] \div 4) \o B64Char((bytes[1] % 4) * 16) \o "=="
      [] Len(bytes) = 2 ->
            B64Char(bytes[1] \div 4)
                \o B64Char((bytes[1] % 4) * 16 + bytes[2] \div 16)
                \o B64Char((bytes[2] % 16) * 4) \o "="
      [] OTHER ->
            B64Char(bytes[1] \div 4)
                \o B64Char((bytes[1] % 4) * 16 + bytes[2] \div 16)
                \o B64Char((bytes[2] % 16) * 4 + bytes[3] \div 64)
                \o B64Char(bytes[3] % 64)
                \o b64encode(SubSeq(bytes, 4, Len(bytes)))

UpperCase == <<"A","B","C","D","E","F","G","H","I","J","K","L","M",
               "N","O","P","Q","R","S","T","U","V","W","X","Y","Z">>
LowerCase == <<"a","b","c","d","e","f","g","h","i","j","k","l","m",
               "n","o","p","q","r","s","t","u","v","w","x","y","z">>

\* str.lower(), character by character
Lower(chars) ==
    [i \in DOMAIN chars |->
        IF \E j \in DOMAIN UpperCase : UpperCase[j] = chars[i]
        THEN LowerCase[CHOOSE j \in DOMAIN UpperCase : UpperCase[j] = chars[i]]
        ELSE chars[i]]

RECURSIVE LStripDots(_)
\* str.lstrip('.')
LStripDots(chars) ==
    IF chars # <<>> /\ Head(chars) = "." THEN LStripDots(Tail(chars)) ELSE chars

\* f.read() of a file opened 'rb', then b64encode(...).decode('utf-8').  The
\* letters of a written report and the bytes of a saved figure are not
\* spelled out in this development: the encoding of a report file is written
\* as its text between braces and that of a figure as what was drawn between
\* braces, which differ whenever the text or the drawing differs.
b64_of_file(file) ==
    IF file.k = "text" THEN "{" \o ToString(file.text) \o "}"
    ELSE IF "drawn" \in DOMAIN file THEN "{" \o ToString(file.drawn) \o "}"
    ELSE b64encode(file.bytes)

\* _image_to_data_uri(image_path), the file being there
image_to_data_uri(files, image_path) ==
    LET b64_data == b64_of_file(files[PathStr(image_path)])
        extension == LStripDots(Lower(image_path.suffix))
        mime_type == IF extension = <<"p", "n", "g">> THEN "image/png"
                     ELSE "image/" \o Join(extension)
    IN "data:" \o mime_type \o ";base64," \o b64_data

\* Variant: the image is embedded whenever the flag is set; a missing file
\* makes open() fail.
get_image_markdown_no_exists_test(files, image_path, alt_text, use_data_uri) ==
    IF use_data_uri
    THEN IF FileExists(files, image_path)
         THEN Ok("![" \o alt_text \o "](" \o image_to_data_uri(files, image_path) \o ")")
         ELSE Raise("FileNotFoundError",
                    <<"No", "such", "file", "or", "directory", ":", PathStr(image_path)>>)
    ELSE Ok("![" \o alt_text \o "](" \o image_path.name \o ")")

\* _get_image_markdown(image_path, alt_text, use_data_uri)
get_image_markdown(files, image_path, alt_text, use_data_uri) ==
    IF use_data_uri /\ FileExists(files, image_path)
    THEN Ok("![" \o alt_text \o "](" \o image_to_data_uri(files, image_path) \o ")")
    ELSE Ok("![" \o alt_text \o "](" \o image_path.name \o ")")

\* ---------------------------------------------------------------------------
\* Arithmetic of the reports.  A value that is worked out once and then
\* used under a name is written as the one member of a set:
\*     CHOOSE one \in {e(x) : x \in {v}} : TRUE     is e(v).
\* ---------------------------------------------------------------------------

\* Natural numbers of any size: limbs in base 2^15, lowest first, no leading
\* zero limb (zero is the empty sequence).
Limb == 2^15

RECURSIVE Pow2(_)
Pow2(n) == IF n = 0 THEN 1 ELSE 2 * Pow2(n - 1)

\* The index of the highest limb that is not zero, or 0
BTop(a) ==
    IF \A i \in DOMAIN a : a[i] = 0 THEN 0
    ELSE CHOOSE i \in DOMAIN a : a[i] # 0 /\ \A j \in DOMAIN a : j > i => a[j] = 0

BNorm(a) == (CHOOSE one \in {SubSeq(v, 1, BTop(v)) : v \in {a}} : TRUE)

RECURSIVE BNat(_)
BNat(n) == IF n = 0 THEN <<>> ELSE <<n % Limb>> \o BNat(n \div Limb)

LimbAt(a, i) == IF i \in DOMAIN a THEN a[i] ELSE 0

RECURSIVE BAddFrom(_, _, _, _)
BAddFrom(a, b, i, carry) ==
    IF i > Len(a) /\ i > Len(b) THEN (IF carry = 0 THEN <<>> ELSE <<carry>>)
    ELSE (CHOOSE one \in {<<t % Limb>> \o BAddFrom(a, b, i + 1, t \div Limb) : t \in {LimbAt(a,
            i) + LimbAt(b, i) + carry}} : TRUE)

BAdd(a, b) == (CHOOSE one \in {BAddFrom(u, v, 1, 0) : u \in {a}, v \in {b}} : TRUE)

RECURSIVE BSubFrom(_, _, _, _)
BSubFrom(a, b, i, borrow) ==
    IF i > Len(a) THEN <<>>
    ELSE (CHOOSE one \in {<<(t + Limb) % Limb>>
                            \o BSubFrom(a, b, i + 1, IF t < 0 THEN 1 ELSE 0)
                                    : t \in {a[i] - LimbAt(b, i) - borrow}} : TRUE)

\* a - b for a >= b
BSub(a, b) == (CHOOSE one \in {BNorm(BSubFrom(u, v, 1, 0)) : u \in {a}, v \in {b}} : TRUE)

RECURSIVE BCmpFrom(_, _, _)
BCmpFrom(a, b, i) ==
    IF i = 0 THEN 0
    ELSE IF a[i] < b[i] THEN -1
    ELSE IF a[i] > b[i] THEN 1
    ELSE BCmpFrom(a, b, i - 1)

\* -1, 0 or 1 as a < b, a = b or a > b
BCmp(a, b) ==
    (CHOOSE one \in {IF Len(u) < Len(v) THEN -1
                        ELSE IF Len(u) > Len(v) THEN 1
                        ELSE BCmpFrom(u, v, Len(u)) : u \in {a}, v \in {b}} : TRUE)

RECURSIVE BMulSmallFrom(_, _, _, _)
BMulSmallFrom(a, k, i, carry) ==
    IF i > Len(a) THEN (IF carry = 0 THEN <<>> ELSE <<carry>>)
    ELSE (CHOOSE one \in {<<t % Limb>> \o BMulSmallFrom(a, k, i + 1, t \div Limb)
            : t \in {a[i] * k + carry}} : TRUE)

\* a * k for 0 <= k < 2^15
BMulSmall(a, k) ==
    (CHOOSE one \in {IF c = 0 THEN <<>> ELSE BMulSmallFrom(u, c, 1, 0) : u \in {a}, c \in {k}} : TRUE)

\* a * 2^(15 * n)
BShiftLimbs(a, n) == (CHOOSE one \in {IF u = <<>> THEN u ELSE [i \in 1..n |-> 0] \o u : u \in {a}} : TRUE)

RECURSIVE BMulFrom(_, _, _)
BMulFrom(a, b, i) ==
    IF i > Len(b) THEN <<>>
    ELSE BAdd(BShiftLimbs(BMulSmall(a, b[i]), i - 1), BMulFrom(a, b, i + 1))

BMul(a, b) == (CHOOSE one \in {BMulFrom(u, v, 1) : u \in {a}, v \in {b}} : TRUE)

RECURSIVE BRemFrom(_, _, _)
\* The remainder of the limbs i.. of a, as a number, on division by d
BRemFrom(a, d, i) ==
    IF i > Len(a) THEN 0 ELSE (BRemFrom(a, d, i + 1) * Limb + a[i]) % d

\* a \div d and a % d for 0 < d < 2^16
BDivSmall(a, d) ==
    (CHOOSE one \in {BNorm([i \in DOMAIN u |-> (BRemFrom(u, c, i + 1) * Limb + u[i]) \div c])
            : u \in {a}, c \in {d}} : TRUE)
BModSmall(a, d) == (CHOOSE one \in {BRemFrom(u, c, 1) : u \in {a}, c \in {d}} : TRUE)

RECURSIVE BitLen(_)
BitLen(n) == IF n = 0 THEN 0 ELSE 1 + BitLen(n \div 2)

\* The number of binary digits of a
BBitLen(a) ==
    (CHOOSE one \in {IF u = <<>> THEN 0 ELSE 15 * (Len(u) - 1) + BitLen(u[Len(u)]) : u \in {a}} : TRUE)

\* a * 2^k
BShl(a, k) == (CHOOSE one \in {BShiftLimbs(BMulSmall(a, Pow2(c % 15)), c \div 15) : c \in {k}} : TRUE)

\* a \div 2^k
BShr(a, k) ==
    (CHOOSE one \in {IF c \div 15 >= Len(u) THEN <<>>
                        ELSE BDivSmall(SubSeq(u, (c \div 15) + 1, Len(u)), Pow2(c % 15))
                                : u \in {a}, c \in {k}} : TRUE)

\* The binary digit of weight 2^i of a
BBit(a, i) == (CHOOSE one \in {(LimbAt(u, (c \div 15) + 1) \div Pow2(c % 15)) % 2 : u \in {a},
        c \in {i}} : TRUE)

\* Whether a % 2^k # 0
BLowBits(a, k) ==
    (CHOOSE one \in {(\E i \in 1..(c \div 15) : LimbAt(u, i) # 0)
                          \/ (LimbAt(u, (c \div 15) + 1) % Pow2(c % 15) # 0) :
         u \in {a}, c \in {k}} : TRUE)

BOdd(a) == (CHOOSE one \in {u # <<>> /\ u[1] % 2 = 1 : u \in {a}} : TRUE)

\* a shifted right by k binary digits and rounded to nearest, ties to even;
\* `sticky` tells that the exact value lies above a.
BRoundShr(a, k, sticky) ==
    (CHOOSE one \in {IF c = 0 THEN u
            ELSE (CHOOSE one \in {IF BBit(u, c - 1) = 1
                                        /\ (s \/ BLowBits(u, c - 1) \/ BOdd(q))
                                  THEN BAdd(q, <<1>>) ELSE q : q \in {BShr(u, c)}} : TRUE)
                                          : u \in {a}, c \in {k}, s \in {sticky}} : TRUE)

RECURSIVE BDigitOf(_, _, _)
\* The largest k <= est with b * k <= a
BDigitOf(a, b, est) ==
    IF BCmp(BMulSmall(b, est), a) <= 0 THEN est ELSE BDigitOf(a, b, est - 1)

\* One step of long division by b, whose highest limb is at least 2^14: the
\* next limb is brought down, and the quotient digit is estimated from the
\* two highest limbs; the estimate is at most two too large.
BDivStep(qr, limb, b) ==
    (CHOOSE one \in
        {(CHOOSE two \in
            {(CHOOSE three \in
                {[q |-> <<k>> \o qr.q, r |-> BSub(cur, BMulSmall(b, k))] :
                 k \in {BDigitOf(cur, b, IF est >= Limb THEN Limb - 1 ELSE est)}} : TRUE) :
             est \in {(LimbAt(cur, Len(b) + 1) * Limb + LimbAt(cur, Len(b))) \div b[Len(b)]}} : TRUE) :
         cur \in {BNorm(<<limb>> \o qr.r)}} : TRUE)

RECURSIVE BDivLimbs(_, _, _, _)
BDivLimbs(a, b, i, qr) ==
    IF i = 0 THEN qr
    ELSE (CHOOSE one \in {BDivLimbs(a, b, i - 1, s) : s \in {BDivStep(qr, a[i], b)}} : TRUE)

\* [q |-> a \div b, r |-> a % b] for b > 0: both are scaled to bring the
\* highest limb of b to 2^14 or more.
BDivMod(a, b) ==
    (CHOOSE one \in
        {(CHOOSE two \in
            {[q |-> BNorm(qr.q), r |-> BShr(qr.r, shift)] :
             qr \in {BDivLimbs(u, v, Len(u), [q |-> <<>>, r |-> <<>>])}} : TRUE) :
         u \in {BShl(a, 15 - BitLen(b[Len(b)]))},
         v \in {BShl(b, 15 - BitLen(b[Len(b)]))},
         shift \in {15 - BitLen(b[Len(b)])}} : TRUE)

\* One step of the digit-by-digit integer square root: st.n is what is left
\* of the radicand, st.res the root so far, 2^bit a power of four.
BSqrtStep(st, bit) ==
    (CHOOSE one \in {IF BCmp(st.n, t) >= 0
            THEN [n |-> BSub(st.n, t), res |-> BAdd(half, BShl(<<1>>, bit))]
            ELSE [n |-> st.n, res |-> half] : t \in {BAdd(st.res, BShl(<<1>>, bit))},
                    half \in {BShr(st.res, 1)}} : TRUE)

RECURSIVE BSqrtSteps(_, _, _, _)
\* The steps for the powers of four 2^(top - 2 * j), j = from .. to, in turn
BSqrtSteps(st, top, from, to) ==
    IF from > to THEN st
    ELSE IF from = to THEN BSqrtStep(st, top - 2 * from)
    ELSE (CHOOSE one \in {BSqrtSteps(s, top, ((from + to) \div 2) + 1, to) : s \in {BSqrtSteps(st,
            top, from, (from + to) \div 2)}} : TRUE)

\* [res |-> the integer square root of a, n |-> a - res^2]
BSqrt(a) ==
    (CHOOSE one \in {(CHOOSE one \in {BSqrtSteps([n |-> u, res |-> <<>>], 2 * ((len - 1) \div 2), 0,
                               IF len = 0 THEN -1 ELSE (len - 1) \div 2) : len \in {BBitLen(u)}}
                                       : TRUE) : u \in {a}} : TRUE)

RECURSIVE BTimesPow10(_, _)
\* a * 10^n
BTimesPow10(a, n) == IF n = 0 THEN a ELSE BTimesPow10(BMulSmall(a, 10), n - 1)

RECURSIVE BDivPow10(_, _)
\* a \div 10^n
BDivPow10(a, n) == IF n = 0 THEN a ELSE BDivPow10(BDivSmall(a, 10), n - 1)

RECURSIVE BDigitsFrom(_, _)
\* The last n decimal digits of a and, before them, its further digits
BDigitsFrom(a, n) ==
    (CHOOSE one \in {IF c <= 0 /\ u = <<>> THEN ""
                        ELSE BDigitsFrom(BDivSmall(u, 10), c - 1)
                                \o ToString(BModSmall(u, 10)) : u \in {a}, c \in {n}} : TRUE)

\* a / 10^places in fixed-point notation, for places > 0
Pointed(a, places) ==
    (CHOOSE one \in {(CHOOSE one \in {BDigitsFrom(q, 1) \o "."
                                \o BDigitsFrom(BSub(u, BTimesPow10(q, p)), p) : q \in {BDivPow10(u,
                                        p)}} : TRUE) : u \in {a}, p \in {places}} : TRUE)

\* ---------------------------------------------------------------------------
\* IEEE-754 binary64 numbers (Python float, numpy float64): the value is
\* (-1)^s * m * 2^e with m a natural number of 53 binary digits, or m zero.
\* Subnormal numbers and infinities are beyond the magnitudes met here.
\* ---------------------------------------------------------------------------
Float(s, m, e) == [nan |-> FALSE, s |-> s, m |-> m, e |-> e]

FZero == Float(0, <<>>, 0)

\* float('nan')
FNaN == [nan |-> TRUE, s |-> 0, m |-> <<>>, e |-> 0]

\* The float nearest to (-1)^s * M * 2^e (ties to even), where the exact
\* value lies above M when `sticky`; M then has more than 53 digits.
FRound(s, M, e, sticky) ==
    (CHOOSE one \in {(CHOOSE one \in {IF u = <<>> THEN Float(s, <<>>, 0)
                    ELSE IF len <= 53 THEN Float(s, BShl(u, 53 - len), x - (53 - len))
                    ELSE (CHOOSE one \in {IF BBitLen(r) = 54
                                          THEN Float(s, BShl(<<1>>, 52), x + len - 53 + 1)
                                          ELSE Float(s, r, x + len - 53) : r \in {BRoundShr(u,
                                                  len - 53, sticky)}} : TRUE)
                                                  : len \in {BBitLen(u)}} : TRUE) : u \in {M},
                                                  x \in {e}} : TRUE)

\* float(n) for an int n
FInt(n) ==
    (CHOOSE one \in {FRound(IF v < 0 THEN 1 ELSE 0, BNat(IF v < 0 THEN 0 - v ELSE v), 0, FALSE)
            : v \in {n}} : TRUE)

\* The float a decimal literal denotes: units / 10^places
FDec(units, places) ==
    (CHOOSE one \in {(CHOOSE one \in {(CHOOSE one \in {FRound(IF u < 0 THEN 1 ELSE 0, q, 0 - (64 + 4 * p),
                                            BTimesPow10(q, p) # a) : q \in {BDivPow10(a, p)}}
                                                    : TRUE) : a \in {BShl(BNat(IF u < 0 THEN 0 - u
                                                    ELSE u), 64 + 4 * p)}} : TRUE) : u \in {units},
                                                    p \in {places}} : TRUE)

FNeg(x) == [x EXCEPT !.s = 1 - @]
FAbs(x) == [x EXCEPT !.s = 0]

\* x + y
FAdd(x, y) ==
    (CHOOSE one \in {IF a.nan \/ b.nan THEN FNaN
            ELSE IF a.m = <<>> THEN (IF b.m = <<>> /\ a.s # b.s THEN FZero ELSE b)
            ELSE IF b.m = <<>> THEN a
            ELSE (CHOOSE one \in {IF a.s = b.s THEN FRound(a.s, BAdd(X, Y), e, FALSE)
                         ELSE (CHOOSE one \in {IF c = 0 THEN FZero
                                      ELSE IF c > 0 THEN FRound(a.s, BSub(X, Y), e, FALSE)
                                      ELSE FRound(b.s, BSub(Y, X), e, FALSE) : c \in {BCmp(X, Y)}}
                                              : TRUE) : e \in {IF a.e < b.e THEN a.e ELSE b.e},
                                              X \in {BShl(a.m, IF a.e < b.e THEN 0 ELSE a.e - b.e)},
                                              Y \in {BShl(b.m, IF a.e < b.e THEN b.e - a.e ELSE 0)}}
                                              : TRUE) : a \in {x}, b \in {y}} : TRUE)

\* x - y
FSub(x, y) == FAdd(x, FNeg(y))

\* x * y
FMul(x, y) ==
    (CHOOSE one \in {IF a.nan \/ b.nan THEN FNaN
            ELSE FRound((a.s + b.s) % 2, BMul(a.m, b.m), a.e + b.e, FALSE) : a \in {x}, b \in {y}} : TRUE)

\* x / y for y # 0
FDiv(x, y) ==
    (CHOOSE one \in {IF a.nan \/ b.nan THEN FNaN
            ELSE (CHOOSE one \in {FRound((a.s + b.s) % 2, d.q, a.e - 64 - b.e, d.r # <<>>)
                    : d \in {BDivMod(BShl(a.m, 64), b.m)}} : TRUE) : a \in {x}, b \in {y}} : TRUE)

\* The square root of M * 2^e for an even e and a natural number M of at
\* least 110 binary digits
FSqrtEven(M, e) ==
    (CHOOSE one \in {FRound(0, root.res, e \div 2, root.n # <<>>) : root \in {BSqrt(M)}} : TRUE)

\* sqrt(x) for x >= 0
FSqrt(x) ==
    (CHOOSE one \in {IF a.nan THEN FNaN
            ELSE IF a.m = <<>> THEN a
            ELSE IF a.e % 2 = 0 THEN FSqrtEven(BShl(a.m, 64), a.e - 64)
            ELSE FSqrtEven(BShl(a.m, 65), a.e - 65) : a \in {x}} : TRUE)

\* x ** 1.5 for x >= 0: the square root of the exact cube
FPow15(x) ==
    (CHOOSE one \in {IF a.nan THEN FNaN
            ELSE IF a.m = <<>> THEN a
            ELSE IF a.e % 2 = 0 THEN FSqrtEven(BMul(BMul(a.m, a.m), a.m), 3 * a.e)
            ELSE FSqrtEven(BShl(BMul(BMul(a.m, a.m), a.m), 1), 3 * a.e - 1) : a \in {x}} : TRUE)

\* -1, 0 or 1 as x < y, x = y or x > y, for numbers
FCmp(x, y) ==
    (CHOOSE one \in {IF a.m = <<>> /\ b.m = <<>> THEN 0
            ELSE IF a.m = <<>> THEN (IF b.s = 0 THEN -1 ELSE 1)
            ELSE IF b.m = <<>> THEN (IF a.s = 0 THEN 1 ELSE -1)
            ELSE IF a.s # b.s THEN (IF a.s = 0 THEN 1 ELSE -1)
            ELSE (IF a.s = 0 THEN 1 ELSE -1)
                    * (IF a.e < b.e THEN -1 ELSE IF a.e > b.e THEN 1 ELSE BCmp(a.m, b.m))
                            : a \in {x}, b \in {y}} : TRUE)

\* Comparisons; each is false when an operand is not a number.
FLess(x, y) == (CHOOSE one \in {~a.nan /\ ~b.nan /\ FCmp(a, b) < 0 : a \in {x}, b \in {y}} : TRUE)
FGreater(x, y) == FLess(y, x)

\* abs(x) * 10^places rounded to a whole number, ties to even
FScaled(x, places) ==
    (CHOOSE one \in {IF a.e >= 0 THEN BShl(BTimesPow10(a.m, places), a.e)
                     ELSE BRoundShr(BTimesPow10(a.m, places), 0 - a.e, FALSE) : a \in {x}} : TRUE)

\* f"{x:.<places>f}"
FFormat(x, places) ==
    (CHOOSE one \in {IF a.nan THEN "nan"
                        ELSE (IF a.s = 1 THEN "-" ELSE "") \o Pointed(FScaled(a, p), p) : a \in {x},
                                p \in {places}} : TRUE)

\* ---------------------------------------------------------------------------
\* Report generators (markdown_reports.py): the fit report
\* ---------------------------------------------------------------------------

\* A Python float, held in hundredths.
JFloat(c) == [k |-> "float", c |-> c]

IsNumber(v) == v.k \in {"int", "float", "bool"}

\* The value of a number, in hundredths.
Hundredths(v) ==
    CASE v.k = "float" -> v.c
      [] v.k = "int" -> v.i * 100
      [] v.k = "bool" -> IF v.b THEN 100 ELSE 0

\* bool(v)
Truthy(v) ==
    CASE v.k = "null" -> FALSE
      [] v.k = "bool" -> v.b
      [] v.k = "int" -> v.i # 0
      [] v.k = "float" -> v.c # 0
      [] v.k = "str" -> v.s # <<>>
      [] v.k = "list" -> v.l # <<>>
      [] v.k = "obj" -> DOMAIN v.o # {}

RECURSIVE Zeros(_)
Zeros(n) == IF n <= 0 THEN "" ELSE "0" \o Zeros(n - 1)

\* A number of hundredths in fixed-point notation with `places` >= 2 digits
\* after the point.
FixedStr(c, places) ==
    LET a == IF c < 0 THEN 0 - c ELSE c
        frac == a % 100
    IN (IF c < 0 THEN "-" ELSE "") \o ToString(a \div 100) \o "."
        \o (IF frac < 10 THEN "0" ELSE "") \o ToString(frac) \o Zeros(places - 2)

\* f"{v:.<places>f}"
FormatF(v, places) ==
    CASE IsNumber(v) -> Ok(FixedStr(Hundredths(v), places))
      [] v.k = "str" ->
            Raise("ValueError", <<"Unknown", "format", "code", "'f'", "for", "object",
                                  "of", "type", "'str'">>)
      [] OTHER ->
            Raise("TypeError", <<"unsupported", "format", "string", "passed", "to",
                                 "__format__">>)

\* The characters of the dict keys the reports look up.
KeyChars ==
    [intercept |-> <<"i","n","t","e","r","c","e","p","t">>,
     ar_coef |-> <<"a","r","_","c","o","e","f">>,
     ma_coef |-> <<"m","a","_","c","o","e","f">>,
     omega |-> <<"o","m","e","g","a">>,
     alpha_coef |-> <<"a","l","p","h","a","_","c","o","e","f">>,
     beta_coef |-> <<"b","e","t","a","_","c","o","e","f">>]

\* container[key] with a str key
Subscript(container, key) ==
    CASE container.k = "obj" ->
            IF key \in DOMAIN container.o THEN Ok(container.o[key])
            ELSE Raise("KeyError", <<key>>)
      [] OTHER -> Raise("TypeError", <<"indices", "must", "be", "integers">>)

\* The first outcome of `outcomes` that is an exception, else the last one.
RECURSIVE FirstError(_)
FirstError(outcomes) ==
    IF Len(outcomes) = 1 \/ Head(outcomes).exc # "none" THEN Head(outcomes)
    ELSE FirstError(Tail(outcomes))

\* if '<key>' in p: report += f"- **<label>:** {p['<key>']:.6f}\n"
ScalarLine(p, key, label) ==
    LET has == In(key, KeyChars[key], p) IN
    IF has.exc # "none" THEN has
    ELSE IF ~has.val THEN Ok(<<>>)
    ELSE LET v == Subscript(p, key) IN
         IF v.exc # "none" THEN v
         ELSE LET text == FormatF(v.val, 6) IN
              IF text.exc # "none" THEN text
              ELSE Ok(<<label \o ": " \o text.val>>)

\* for i, coef in enumerate(value, 1): report += f"  - <sym>{i} = {coef:.6f}\n"
CoefItems(value, sym) ==
    CASE value.k = "list" ->
            LET each == [i \in DOMAIN value.l |-> FormatF(value.l[i], 6)] IN
            IF \E i \in DOMAIN each : each[i].exc # "none"
            THEN FirstError(each)
            ELSE Ok([i \in DOMAIN each |->
                        sym \o ToString(i) \o " = " \o each[i].val])
      [] value.k \in {"str", "obj"} -> FormatF(JStr(<<>>), 6)
      [] OTHER -> Raise("TypeError", <<"object", "is", "not", "iterable">>)

\* if '<key>' in p and p['<key>']: header line, then one line per coefficient
CoefLines(p, key, label, sym) ==
    LET has == In(key, KeyChars[key], p) IN
    IF has.exc # "none" THEN has
    ELSE IF ~has.val THEN Ok(<<>>)
    ELSE LET v == Subscript(p, key) IN
         IF v.exc # "none" THEN v
         ELSE IF ~Truthy(v.val) THEN Ok(<<>>)
         ELSE LET items == CoefItems(v.val, sym) IN
              IF items.exc # "none" THEN items
              ELSE Ok(<<label>> \o items.val)

\* The lines of several sections in order, or the first exception.
Sections(outcomes) ==
    IF \E i \in DOMAIN outcomes : outcomes[i].exc # "none" THEN FirstError(outcomes)
    ELSE Ok(LET RECURSIVE cat(_)
                cat(s) == IF s = <<>> THEN <<>> ELSE Head(s).val \o cat(Tail(s))
            IN cat(outcomes))

\* A number as a Python float.
AsFloat(v) == FDec(Hundredths(v), 2)

RECURSIVE SumFrom(_, _)
\* sum() before Python 3.12: total + l[1] + l[2] + ..., added from the left
\* in double precision (an int total or item adds exactly at these sizes)
SumFrom(l, total) ==
    IF l = <<>> THEN total
    ELSE (CHOOSE one \in {SumFrom(Tail(l), t) : t \in {FAdd(total, AsFloat(Head(l)))}} : TRUE)

\* The term Neumaier's summation adds to the compensation when x is added
\* to f_result and t is the rounded sum of the two.
Neumaier(f_result, x, t) ==
    IF FCmp(FAbs(f_result), FAbs(x)) >= 0
    THEN FAdd(FSub(f_result, t), x)
    ELSE FAdd(FSub(x, t), f_result)

RECURSIVE SumCompensated(_, _, _, _)
\* sum() from Python 3.12 on.  Until a float has been met the items are
\* added plainly (ints among themselves, then the first float to the int
\* total).  From then on (`floating`) a float item is added with Neumaier's
\* compensation c and an int or bool item plainly; at the end c is added to
\* the total when it is not zero.
SumCompensated(l, floating, total, c) ==
    IF l = <<>> THEN (IF c.m = <<>> THEN total ELSE FAdd(total, c))
    ELSE (CHOOSE one \in
            {(CHOOSE one \in
                {SumCompensated(Tail(l), floating \/ is_float, t,
                                IF floating /\ is_float
                                THEN FAdd(c, Neumaier(f_result, x, t)) ELSE c) :
                 t \in {FAdd(f_result, x)}} : TRUE) :
             f_result \in {total}, x \in {AsFloat(Head(l))},
             is_float \in {Head(l).k = "float"}} : TRUE)

\* sum(l) as a float, under either kind of interpreter
builtin_sum(l, compensated) ==
    IF compensated THEN SumCompensated(l, FALSE, FZero, FZero) ELSE SumFrom(l, FZero)

\* sum(alpha_coef) + sum(beta_coef)
Persistence(alpha, beta, compensated) ==
    (CHOOSE one \in {FAdd(of_alpha, of_beta) :
         of_alpha \in {builtin_sum(alpha, compensated)},
         of_beta \in {builtin_sum(beta, compensated)}} : TRUE)

\* The two lines written for a persistence value.
PersistenceText(alpha, beta, compensated) ==
    (CHOOSE one \in {<<"Volatility Persistence: " \o FFormat(persistence, 4),
                       IF FGreater(persistence, FDec(99, 2)) THEN "Very high persistence"
                       ELSE IF FGreater(persistence, FDec(90, 2)) THEN "High persistence"
                       ELSE "Moderate persistence">> :
         persistence \in {Persistence(alpha, beta, compensated)}} : TRUE)

\* The coefficient lists of the parameter records considered below, and the
\* lines of each pair of them, worked out once: a list of one number sums to
\* that number under either kind of interpreter.
CoefLists == {<<JFloat(10)>>, <<JFloat(34)>>, <<JFloat(56)>>, <<JFloat(85)>>, <<JFloat(95)>>}
PersistenceTexts ==
    [pair \in CoefLists \X CoefLists |-> PersistenceText(pair[1], pair[2], FALSE)]

\* The "Volatility Persistence" lines: both coefficient lists present and
\* non-empty.  The sums are the interpreter's, which the environment tells.
PersistenceLines(garch_params) ==
    LET has_a == In("alpha_coef", KeyChars["alpha_coef"], garch_params)
        has_b == In("beta_coef", KeyChars["beta_coef"], garch_params) IN
    IF has_a.exc # "none" THEN has_a
    ELSE IF ~has_a.val THEN Ok(<<>>)
    ELSE IF ~has_b.val THEN Ok(<<>>)
    ELSE LET a == Subscript(garch_params, "alpha_coef")
             b == Subscript(garch_params, "beta_coef") IN
         IF a.exc # "none" THEN a
         ELSE IF ~(Truthy(a.val) /\ Truthy(b.val)) THEN Ok(<<>>)
         ELSE IF ~(a.val.k = "list" /\ b.val.k = "list"
                    /\ \A i \in DOMAIN a.val.l : IsNumber(a.val.l[i])
                    /\ \A j \in DOMAIN b.val.l : IsNumber(b.val.l[j]))
              THEN Raise("TypeError", <<"unsupported", "operand", "type(s)", "for", "+">>)
              ELSE IF <<a.val.l, b.val.l>> \in DOMAIN PersistenceTexts
              THEN Ok(PersistenceTexts[<<a.val.l, b.val.l>>])
              ELSE Ok(PersistenceText(a.val.l, b.val.l, env.compensated_sum))

\* The first column of the table, as numpy values.
FirstColumn(df) == [i \in DOMAIN df.rows |-> df.rows[i][df.columns[1]]]

SeqMin(s) == CHOOSE x \in Range(s) : \A y \in Range(s) : x <= y
SeqMax(s) == CHOOSE x \in Range(s) : \A y \in Range(s) : x >= y

RECURSIVE AddFrom(_, _, _, _, _)
\* total + a[i] + a[i + stride] + ... for the indexes up to `last`
AddFrom(a, i, stride, last, total) ==
    IF i > last THEN total
    ELSE (CHOOSE one \in {AddFrom(a, i + stride, stride, last, t) : t \in {FAdd(total, a[i])}} : TRUE)

RECURSIVE PairwiseTotal(_)
\* r[1] + r[2], r[3] + r[4], ... and so on with the sums until one is left
PairwiseTotal(r) ==
    IF Len(r) = 1 THEN r[1]
    ELSE (CHOOSE one \in {PairwiseTotal(half)
            : half \in {[j \in 1..(Len(r) \div 2) |-> FAdd(r[2 * j - 1], r[2 * j])]}} : TRUE)

\* np.sum of up to 128 float64 values: fewer than eight are added from the
\* left, starting at 0.0; otherwise eight running sums each take every
\* eighth value, the eight are added in pairs, and the values left over are
\* added from the left.
np_sum(a) ==
    (CHOOSE one \in {AddFrom(a, whole + 1, 1, Len(a), start) :
         whole \in {Len(a) - (Len(a) % 8)},
         start \in {IF Len(a) < 8 THEN FZero
                    ELSE (CHOOSE two \in {PairwiseTotal(r) :
                              r \in {[j \in 1..8 |-> AddFrom(a, j + 8, 8, Len(a) - (Len(a) % 8),
                                      a[j])]}} : TRUE)}} : TRUE)

\* np.mean(a) of a non-empty array
np_mean(a) == (CHOOSE one \in {FDiv(total, FInt(Len(a))) : total \in {np_sum(a)}} : TRUE)

\* a - np.mean(a), value by value
Deviations(a) == (CHOOSE one \in {[i \in DOMAIN a |-> FSub(a[i], mean)] : mean \in {np_mean(a)}} : TRUE)

\* d ** k for k = 2, 3, 4 as scipy raises to a power, by repeated squaring:
\* d * d, (d * d) * d and (d * d) * (d * d).
Power(d, k) ==
    (CHOOSE one \in {IF k = 2 THEN sq ELSE [i \in DOMAIN d |-> FMul(sq[i], IF k = 3 THEN d[i] ELSE sq[i])] :
         sq \in {[i \in DOMAIN d |-> FMul(d[i], d[i])]}} : TRUE)

\* The central moments 2, 3 and 4 of a: the means of the powers of the
\* deviations.  The second is the variance np.std takes the root of.
Moments(a) ==
    (CHOOSE one \in {[k \in 2..4 |-> (CHOOSE two \in {np_mean(p) : p \in {Power(d, k)}} : TRUE)] :
         d \in {Deviations(a)}} : TRUE)

\* np.std(a), from the second central moment
np_std(m) == FSqrt(m[2])

\* scipy.stats takes the values for constant, and its result for not a
\* number, when m2 <= (resolution * mean)^2, the resolution of float64
\* being 1e-15.
NearConstant(mean, m) ==
    (CHOOSE one \in {FCmp(m[2], FMul(bound, bound)) <= 0 : bound \in {FMul(FDec(1, 15), mean)}} : TRUE)

\* stats.skew(a) = m3 / m2 ** 1.5
stats_skew(mean, m) ==
    IF NearConstant(mean, m) THEN FNaN
    ELSE (CHOOSE one \in {FDiv(m[3], root) : root \in {FPow15(m[2])}} : TRUE)

\* stats.kurtosis(a) = m4 / m2 ** 2 - 3
stats_kurtosis(mean, m) ==
    IF NearConstant(mean, m) THEN FNaN
    ELSE (CHOOSE one \in {FSub(ratio, FInt(3)) :
              ratio \in {(CHOOSE two \in {FDiv(m[4], square) : square \in {FMul(m[2], m[2])}}
                      : TRUE)}} : TRUE)

\* The figures both the fit report and the fit plot show of a non-empty
\* column of whole numbers.
Statistics(values) ==
    (CHOOSE one \in {(CHOOSE two \in {[mean |-> mean, std |-> np_std(m),
                                        min |-> FInt(SeqMin(values)), max |-> FInt(SeqMax(values)),
                                        skew |-> stats_skew(mean, m),
                                        kurtosis |-> stats_kurtosis(mean, m)] :
                           mean \in {np_mean(a)}, m \in {Moments(a)}} : TRUE) :
         a \in {[i \in DOMAIN values |-> FInt(values[i])]}} : TRUE)

\* Series that are constant, symmetric, skewed to either side, and with
\* light, normal and heavy tails.
ShapeSeries ==
    {<<3>>, <<3, 3>>, <<1, 2>>, <<1, 2, 3>>, <<0, 0, 0, 0, 1>>, <<1, 1, 1, 1, 0>>,
     <<0, 0, 0, 0, 0, 1>>, <<1, 1, 1, 1, 1, 0>>, <<0, 0, 0, 1, 1, 1>>}

\* The series 1, 2, ..., n of 0..MaxRows values.
CountingSeries == {[i \in 1..n |-> i] : n \in 0..MaxRows}

\* abs(x) < 0.5 and x > 0; both are false of a value that is not a number.
AbsBelowHalf(x) == FLess(FAbs(x), FDec(5, 1))
Positive(x) == FGreater(x, FZero)

\* The rows of the "Data Summary Statistics" table.
SummaryRows(values) ==
    (CHOOSE one \in {<<"Count: " \o ToString(Len(values)),
                       "Mean: " \o FFormat(st.mean, 6),
                       "Std Dev: " \o FFormat(st.std, 6),
                       "Min: " \o FFormat(st.min, 6),
                       "Max: " \o FFormat(st.max, 6),
                       "Skewness: " \o FFormat(st.skew, 4),
                       "Kurtosis: " \o FFormat(st.kurtosis, 4)>> : st \in {Statistics(values)}} : TRUE)

\* The two bullets under "Interpretation".
ShapeBullets(values) ==
    (CHOOSE one \in {<<IF AbsBelowHalf(st.skew)
                        THEN "- **Skewness:** The distribution appears approximately symmetric."
                        ELSE IF Positive(st.skew)
                        THEN "- **Skewness:** The distribution is right-skewed (positively skewed) with a tail extending toward positive values."
                        ELSE "- **Skewness:** The distribution is left-skewed (negatively skewed) with a tail extending toward negative values.",
                        IF AbsBelowHalf(st.kurtosis)
                        THEN "- **Kurtosis:** The distribution has approximately normal tail behavior (mesokurtic)."
                        ELSE IF Positive(st.kurtosis)
                        THEN "- **Kurtosis:** The distribution exhibits heavy tails (leptokurtic), suggesting more extreme values than a normal distribution."
                        ELSE "- **Kurtosis:** The distribution has light tails (platykurtic), with fewer extreme values than a normal distribution.">> :
         st \in {Statistics(values)}} : TRUE)

\* The rows and the bullets of the series considered below, worked out once.
SeriesSummaryRows ==
    [values \in (ShapeSeries \cup CountingSeries) \ {<<>>} |-> SummaryRows(values)]
SeriesShapeBullets ==
    [values \in (ShapeSeries \cup CountingSeries) \ {<<>>} |-> ShapeBullets(values)]

\* The first column as the reductions np.mean ... np.min take it: they raise
\* on text values and on no values at all.
Reductions(data) ==
    IF Len(data.columns) = 0
    THEN Raise("IndexError", <<"single", "positional", "indexer", "is", "out-of-bounds">>)
    ELSE IF data.k = "dfo"
    THEN Raise("TypeError", <<"unsupported", "operand", "type(s)", "for", "/">>)
    ELSE IF FirstColumn(data) = <<>>
    THEN Raise("ValueError", <<"zero-size", "array", "to", "reduction", "operation">>)
    ELSE Ok(FirstColumn(data))

\* The "Data Summary Statistics" rows.
SummaryStatistics(data) ==
    IF Reductions(data).exc # "none" THEN Reductions(data)
    ELSE IF FirstColumn(data) \in DOMAIN SeriesSummaryRows
    THEN Ok(SeriesSummaryRows[FirstColumn(data)])
    ELSE Ok(SummaryRows(FirstColumn(data)))

\* The bullets under "Interpretation" in the fit report; the summary table
\* above them is rendered first.
Interpretation(data) ==
    IF Reductions(data).exc # "none" THEN Reductions(data)
    ELSE IF FirstColumn(data) \in DOMAIN SeriesShapeBullets
    THEN Ok(SeriesShapeBullets[FirstColumn(data)])
    ELSE Ok(ShapeBullets(FirstColumn(data)))

\* Variant: the heading of the report carries the date as well.
ReportText_dated_title(title, now, model_spec, n_obs, body, image) ==
    [title |-> title \o " - " \o ToString(now), generated |-> now,
     model_spec |-> model_spec, n_obs |-> n_obs, body |-> body, image |-> image]

\* A written report: the parts of the text that depend on the inputs.
\* `generated` is the clock reading behind the three rendered timestamps.
ReportText(title, now, model_spec, n_obs, body, image) ==
    [title |-> title, generated |-> now, model_spec |-> model_spec,
     n_obs |-> n_obs, body |-> body, image |-> image]

\* The tail of every report generator: create the parent directories, write
\* the text at output_path, return output_path.
SaveReport(files, directories, output_path, text) ==
    write_file(files, mkdir_parents(directories, output_path.parent), output_path,
               TextFile(text))

\* An exception leaves the disk as it was.
Failed(out, files, directories) ==
    Effect(Out(out.exc, out.msg, <<>>, JNull), files, directories)

\* The text of the fit report, or the exception raised while building it.
FitReportText(files, data, mj, plot_path, use_data_uri, now) ==
    IF Len(data.columns) = 0
    THEN Raise("IndexError", <<"single", "positional", "indexer", "is", "out-of-bounds">>)
    ELSE IF ~HasGet(mj)
    THEN Raise("AttributeError", <<"object", "has", "no", "attribute", "'get'">>)
    ELSE LET params == Get(mj, "parameters", EmptyObj) IN
    IF ~HasGet(params)
    THEN Raise("AttributeError", <<"object", "has", "no", "attribute", "'get'">>)
    ELSE LET arima_params == Get(params, "arima", EmptyObj)
             garch_params == Get(params, "garch", EmptyObj)
         IN (CHOOSE one \in {(CHOOSE two \in
               {IF body.exc # "none" THEN body
                ELSE IF image.exc # "none" THEN image
                ELSE Ok(ReportText("ARIMA-GARCH Model Fit Report", now,
                                   format_model_spec(mj).val, Len(data.rows),
                                   body.val, image.val)) :
                body \in {Sections(sections)},
                image \in {get_image_markdown(files, plot_path, "Fit Diagnostics Plot",
                                              use_data_uri)}} : TRUE) :
             sections \in {<<
                SummaryStatistics(data),
                Interpretation(data),
                ScalarLine(arima_params, "intercept", "Intercept"),
                CoefLines(arima_params, "ar_coef", "AR Coefficients", "phi"),
                CoefLines(arima_params, "ma_coef", "MA Coefficients", "theta"),
                ScalarLine(garch_params, "omega", "Omega"),
                CoefLines(garch_params, "alpha_coef", "Alpha Coefficients", "alpha"),
                CoefLines(garch_params, "beta_coef", "Beta Coefficients", "beta"),
                PersistenceLines(garch_params)>>}} : TRUE)

\* generate_fit_report(data, model_json, plot_path, output_path, use_data_uri)
\* called at clock reading `now`.
generate_fit_report(files, directories, data, mj, plot_path, output_path, use_data_uri, now) ==
    (CHOOSE one \in {IF text.exc # "none" THEN Failed(text, files, directories)
                      ELSE SaveReport(files, directories, output_path, text.val) :
         text \in {FitReportText(files, data, mj, plot_path, use_data_uri, now)}} : TRUE)

\* ---------------------------------------------------------------------------
\* The fit report over model documents
\* ---------------------------------------------------------------------------

\* Parameter records as the external tool writes them, with sub-fields
\* present, absent, empty or null.
ArimaParams ==
    {MkObj(<< <<"intercept", c>>, <<"ar_coef", ar>>, <<"ma_coef", ma>> >>) :
        c \in {Absent, JFloat(5), JNull},
        ar \in {Absent, JList(<<JFloat(60)>>), JList(<<JNull>>)},
        ma \in {Absent, JList(<<>>), JList(<<JFloat(30)>>)}}

GarchParams ==
    {MkObj(<< <<"omega", w>>, <<"alpha_coef", a>>, <<"beta_coef", b>> >>) :
        w \in {Absent, JFloat(1), JStr(<<"x">>)},
        a \in {Absent, JList(<<>>), JList(<<JFloat(34)>>)},
        b \in {Absent, JList(<<JFloat(56)>>), JList(<<JFloat(95)>>)}}

\* The parameter records of the packaged example model.
ExampleArimaParams ==
    MkObj(<< <<"intercept", JFloat(5)>>, <<"ar_coef", JList(<<JFloat(60)>>)>>,
           <<"ma_coef", JList(<<JFloat(30)>>)>> >>)
ExampleGarchParams ==
    MkObj(<< <<"omega", JFloat(1)>>, <<"alpha_coef", JList(<<JFloat(10)>>)>>,
           <<"beta_coef", JList(<<JFloat(85)>>)>> >>)

\* `parameters` values: one record varies while the other is absent or the
\* example's.
ParameterObjs ==
    {MkObj(<< <<"arima", a>>, <<"garch", g>> >>) :
        a \in ArimaParams \cup NonMappings \cup {Absent},
        g \in {Absent, ExampleGarchParams}}
    \cup {MkObj(<< <<"arima", a>>, <<"garch", g>> >>) :
        a \in {Absent, ExampleArimaParams},
        g \in GarchParams \cup NonMappings \cup {Absent}}

\* Model documents handed to the fit report: dicts with or without the two
\* top-level keys, and the non-dict values that contain both key names.
FitDocs ==
    {MkObj(<< <<"spec", ExampleSpec>>, <<"parameters", p>> >>) :
        p \in ParameterObjs \cup NonMappings \cup {Absent}}
    \cup {MkObj(<< <<"parameters", EmptyObj>> >>),
          JList(<<JStr(SpecChars), JStr(ParametersChars)>>),
          JStr(SpecChars \o <<" ">> \o ParametersChars)}

\* A model document whose GARCH record has three alpha coefficients, 0.1,
\* 0.2 and 0.3, and beta 0.3: their sum is 0.9000000000000001 added from the
\* left and 0.8999999999999999 with the compensation.
LongGarchDoc ==
    MkObj(<< <<"spec", ExampleSpec>>,
             <<"parameters",
               MkObj(<< <<"garch",
                         MkObj(<< <<"alpha_coef",
                                    JList(<<JFloat(10), JFloat(20), JFloat(30)>>)>>,
                                  <<"beta_coef", JList(<<JFloat(30)>>)>> >>)>> >>)>> >>)

\* One-column tables of 0..MaxRows numeric rows, and a table of labels.
FitFrames ==
    {DataFrame(SeriesColumns, [i \in DOMAIN values |-> [c \in Range(SeriesColumns) |-> values[i]]]) :
        values \in CountingSeries}
    \cup {ObjectFrame(LabelColumns, <<[c \in Range(LabelColumns) |-> "abc"]>>)}

\* The clock readings a call may see.
Clock == {1, 2}

\* The first bytes of a PNG image.
PngBytes == <<137, 80, 78, 71>>

FitPlotPath == MkPath(<<"output">>, "fit_diagnostics", <<".", "p", "n", "g">>)
FitReportPath == MkPath(<<"reports">>, "fit_report", <<".", "m", "d">>)

\* The file paths a call may be given: those the disk of the run knows.
Known(paths) == {p \in paths : PathStr(p) \in DOMAIN fs}

\* The two kinds of interpreter write the same report unless a list of three
\* or more coefficients is summed, so the later kind is followed on the
\* document that has such a list.
InitFit ==
    /\ model_json \in FitDocs \cup {LongGarchDoc}
    /\ env \in {NoEnv, Compensating(NoEnv)}
    /\ env.compensated_sum => model_json = LongGarchDoc
    /\ fs \in [{PathStr(FitPlotPath), PathStr(FitReportPath)} -> {NoFile}]
            \cup {[p \in {PathStr(FitPlotPath), PathStr(FitReportPath)} |->
                    IF p = PathStr(FitPlotPath) THEN ImageFile(PngBytes) ELSE NoFile]}
    /\ dirs = {DirStr(FitPlotPath.parent)}
    /\ diagnostics_json = JNull
    /\ call = NoLoaderCall
    /\ result = NoResult
    /\ fmt = NoCall
    /\ report = NoReport
    /\ cli = NoCli

DiagPlotPath == MkPath(<<"output">>, "residual_diagnostics", <<".", "p", "n", "g">>)
DiagReportPath == MkPath(<<"reports">>, "diagnostics_report", <<".", "m", "d">>)

\* A report path two directories down, and the plot it refers to.
OutReportPath == MkPath(<<"reports", "daily">>, "report", <<".", "m", "d">>)
OutPlotPath == MkPath(<<"output">>, "plot", <<".", "p", "n", "g">>)

TextReportPaths == {FitReportPath, DiagReportPath, OutReportPath}
PlotPaths == {FitPlotPath, DiagPlotPath, OutPlotPath}

GenerateFitReport ==
    \E data \in FitFrames, plot_path \in Known(PlotPaths),
       output_path \in Known(TextReportPaths),
       use_data_uri \in BOOLEAN, now \in Clock :
        \E e \in {generate_fit_report(fs, dirs, data, model_json, plot_path,
                                       output_path, use_data_uri, now)} :
           /\ call' = [fn |-> "generate_fit_report", path |-> PathStr(output_path),
                       data |-> data, plot_path |-> plot_path,
                       output_path |-> output_path, use_data_uri |-> use_data_uri,
                       now |-> now, existed |-> FileExists(fs, output_path)]
           /\ result' = e.out
           /\ fs' = e.files
           /\ dirs' = e.dirs
           /\ UNCHANGED <<model_json, fmt, report, diagnostics_json, env, cli>>

NextFit == GenerateFitReport

SpecFit == InitFit /\ [][NextFit]_vars

\* What load_model_json requires of a document: both key tests succeed.
AcceptedModel(doc) ==
    /\ In("spec", SpecChars, doc).exc = "none" /\ In("spec", SpecChars, doc).val
    /\ In("parameters", ParametersChars, doc).exc = "none"
    /\ In("parameters", ParametersChars, doc).val

\* What load_csv_data requires of a table.
AcceptedTable(df) == ~Empty(df)

\* C12: for every model document accepted by load_model_json and every table
\* accepted by load_csv_data, generate_fit_report writes the report and
\* returns its path without an error.
C12_AlwaysProduced ==
    (call.fn = "generate_fit_report" /\ AcceptedModel(model_json)
        /\ AcceptedTable(call.data)) =>
        /\ result.exc = "none"
        /\ result.val = JPath(PathStr(call.output_path))
        /\ fs[PathStr(call.output_path)].k = "text"

\* ---------------------------------------------------------------------------
\* The diagnostics report
\* ---------------------------------------------------------------------------

\* Variant: a document counts as available unless it is None.
DiagnosticsAvailable_not_none(dj) == dj # JNull

\* `if diagnostics_json:`
DiagnosticsAvailable(dj) == Truthy(dj)

NoGet == Raise("AttributeError", <<"object", "has", "no", "attribute", "'get'">>)

\* The keys of a dict in insertion order, each as a Python string whose text
\* is kept whole.
KeyList(d) == [n \in DOMAIN d.keys |-> JStr(<<d.keys[n]>>)]

\* The elements a for loop or zip draws from v: the items of a list, the
\* characters of a string, the keys of a dict.
Iterate(v) ==
    CASE v.k = "list" -> Ok(v.l)
      [] v.k = "str" -> Ok([i \in DOMAIN v.s |-> JStr(<<v.s[i]>>)])
      [] v.k = "obj" -> Ok(KeyList(v))
      [] OTHER -> Raise("TypeError", <<"object", "is", "not", "iterable">>)

\* `a > b` and `a <= b` between a value and a float literal (in hundredths)
Compare(v) ==
    IF IsNumber(v) THEN Ok(Hundredths(v))
    ELSE Raise("TypeError", <<"not", "supported", "between", "instances">>)

\* str(v) in an f-string, for any value; containers are not spelled out.
FStr(v) == IF v.k \in {"list", "obj"} THEN "[...]" ELSE PyStr(v)

Min3(a, b, c) == IF a <= b /\ a <= c THEN a ELSE IF b <= c THEN b ELSE c

\* One row of the Ljung-Box table.
LjungBoxRow(lag, stat, pval) ==
    LET c == Compare(pval)
        s == FormatF(stat, 4)
        q == FormatF(pval, 4) IN
    IF c.exc # "none" THEN c
    ELSE IF s.exc # "none" THEN s
    ELSE IF q.exc # "none" THEN q
    ELSE Ok(<<"| " \o FStr(lag) \o " | " \o s.val \o " | " \o q.val \o " | "
                \o (IF c.val > 5 THEN "Pass" ELSE "Fail") \o " |">>)

\* sum(1 for p in pvalues if p <= 0.05), pvalues a sequence of values
FailingTests(ps) ==
    IF \E i \in DOMAIN ps : ~IsNumber(ps[i]) THEN Compare(JNull)
    ELSE Ok(Cardinality({i \in DOMAIN ps : Hundredths(ps[i]) <= 5}))

\* The "Ljung-Box Test Results" section for a truthy ljung_box value.
LjungBoxSection(ljung_box) ==
    IF ~HasGet(ljung_box) THEN NoGet
    ELSE LET lags == Iterate(Get(ljung_box, "lags", JList(<<>>)))
             statistics == Iterate(Get(ljung_box, "statistics", JList(<<>>)))
             pvalues == Iterate(Get(ljung_box, "pvalues", JList(<<>>))) IN
    IF lags.exc # "none" THEN lags
    ELSE IF statistics.exc # "none" THEN statistics
    ELSE IF pvalues.exc # "none" THEN pvalues
    ELSE LET n == Min3(Len(lags.val), Len(statistics.val), Len(pvalues.val))
             rows == Sections(<<Ok(<<>>)>> \o
                        [i \in 1..n |-> LjungBoxRow(lags.val[i], statistics.val[i],
                                                    pvalues.val[i])])
             failing_tests == FailingTests(pvalues.val) IN
         IF rows.exc # "none" THEN rows
         ELSE IF failing_tests.exc # "none" THEN failing_tests
         ELSE Ok(<<"### Ljung-Box Test Results">> \o rows.val \o
                 <<IF failing_tests.val = 0
                   THEN "Interpretation: All Ljung-Box tests pass"
                   ELSE IF 2 * failing_tests.val < Len(pvalues.val)
                   THEN "Interpretation: " \o ToString(failing_tests.val) \o " out of "
                            \o ToString(Len(pvalues.val))
                            \o " tests show some autocorrelation"
                   ELSE "Interpretation: Significant autocorrelation detected">>)

NotApplicable == JStr(<<"N", "/", "A">>)

\* The "Jarque-Bera Normality Test" section for a truthy jarque_bera value.
JarqueBeraSection(jarque_bera) ==
    IF ~HasGet(jarque_bera) THEN NoGet
    ELSE LET pval == Get(jarque_bera, "pvalue", JFloat(100)) IN
         Ok(<<"### Jarque-Bera Normality Test",
              "| Test Statistic | " \o FStr(Get(jarque_bera, "statistic", NotApplicable))
                    \o " |",
              "| p-value | " \o FStr(Get(jarque_bera, "pvalue", NotApplicable)) \o " |">>
            \o (IF ~IsNumber(pval) THEN <<>>
                ELSE IF Hundredths(pval) > 5
                THEN <<"Interpretation: Residuals appear approximately normally distributed">>
                ELSE <<"Interpretation: Residuals deviate from normality">>))

NotAvailable == "*Diagnostic test results not available.*"

\* The "Diagnostic Test Results" part of the report.
DiagnosticResults(dj) ==
    IF ~DiagnosticsAvailable(dj) THEN Ok(<<NotAvailable>>)
    ELSE IF ~HasGet(dj) THEN NoGet
    ELSE LET ljung_box == Get(dj, "ljung_box_test", EmptyObj)
             jarque_bera == Get(dj, "jarque_bera_test", EmptyObj) IN
         Sections(<<IF Truthy(ljung_box) THEN LjungBoxSection(ljung_box) ELSE Ok(<<>>),
                    IF Truthy(jarque_bera) THEN JarqueBeraSection(jarque_bera)
                    ELSE Ok(<<>>)>>)

\* The overall-assessment bullet of the Key Findings.
OverallAssessment(ljung_box) ==
    IF ~HasGet(ljung_box) THEN NoGet
    ELSE LET pvalues == Get(ljung_box, "pvalues", JList(<<>>)) IN
    IF ~Truthy(pvalues) THEN Ok(<<>>)
    ELSE LET ps == Iterate(pvalues) IN
    IF ps.exc # "none" THEN ps
    ELSE IF \E i \in DOMAIN ps.val : ~IsNumber(ps.val[i]) THEN Compare(JNull)
    ELSE LET passing == Cardinality({i \in DOMAIN ps.val : Hundredths(ps.val[i]) > 5})
             n == Len(ps.val) IN
         Ok(<<IF 10 * passing > 8 * n
              THEN "Overall Assessment: good fit"
              ELSE IF 2 * passing > n
              THEN "Overall Assessment: acceptable fit"
              ELSE "Overall Assessment: may benefit from specification changes">>)

\* The normality bullet of the Key Findings.
NormalityFinding(jarque_bera) ==
    IF ~HasGet(jarque_bera) THEN NoGet
    ELSE LET jb_pval == Get(jarque_bera, "pvalue", JNull) IN
         IF jb_pval = JNull \/ ~IsNumber(jb_pval) THEN Ok(<<>>)
         ELSE IF Hundredths(jb_pval) < 1
         THEN Ok(<<"Normality: substantial departure from normality">>)
         ELSE IF Hundredths(jb_pval) < 5
         THEN Ok(<<"Normality: some departure from normality">>)
         ELSE Ok(<<>>)

ExaminePlots == "- Examine the residual plots above for visual assessment of model adequacy."

\* The "Model Adequacy Assessment" part of the report.
KeyFindings(dj) ==
    IF ~DiagnosticsAvailable(dj) THEN Ok(<<ExaminePlots>>)
    ELSE IF ~HasGet(dj) THEN NoGet
    ELSE Sections(<<OverallAssessment(Get(dj, "ljung_box_test", EmptyObj)),
                    NormalityFinding(Get(dj, "jarque_bera_test", EmptyObj))>>)

\* The text of the diagnostics report, or the exception raised while building
\* it.
DiagnosticsReportText(files, mj, data, dj, plot_path, use_data_uri, now) ==
    LET body == DiagnosticResults(dj)
        image == get_image_markdown(files, plot_path, "Residual Diagnostic Plots",
                                    use_data_uri)
        findings == KeyFindings(dj) IN
    IF body.exc # "none" THEN body
    ELSE IF image.exc # "none" THEN image
    ELSE IF findings.exc # "none" THEN findings
    ELSE Ok([title |-> "ARIMA-GARCH Diagnostic Analysis Report", generated |-> now,
             model_spec |-> format_model_spec(mj).val, n_obs |-> Len(data.rows),
             body |-> body.val, image |-> image.val, findings |-> findings.val])

\* generate_diagnostics_report(model_json, data, diagnostics_json, plot_path,
\* output_path, use_data_uri) called at clock reading `now`.
generate_diagnostics_report(files, directories, mj, data, dj, plot_path, output_path, use_data_uri, now) ==
    LET text == DiagnosticsReportText(files, mj, data, dj, plot_path, use_data_uri, now)
    IN  IF text.exc # "none" THEN Failed(text, files, directories)
        ELSE SaveReport(files, directories, output_path, text.val)

\* ---------------------------------------------------------------------------
\* The diagnostics report over diagnostics documents
\* ---------------------------------------------------------------------------

\* p-value lists: each entry fails (0.03) or passes (0.50) the 0.05 test.
PValueLists == {JList(l) : l \in SeqUpTo({JFloat(3), JFloat(50)}, MaxLags)}

\* Ljung-Box records with each of the three parallel arrays present or not.
LjungBoxObjs ==
    {MkObj(<< <<"lags", l>>, <<"statistics", st>>, <<"pvalues", pv>> >>) :
        l \in {Absent, JList([i \in 1..MaxLags |-> JInt(i)])},
        st \in {Absent, JList([i \in 1..MaxLags |-> JFloat(150)])},
        pv \in {Absent, JList(<<JNull>>)} \cup PValueLists}

JarqueBeraObjs ==
    {MkObj(<< <<"statistic", st>>, <<"pvalue", pv>> >>) :
        st \in {Absent, JFloat(250)},
        pv \in {Absent, JFloat(0), JFloat(3), JFloat(50), JNull, JStr(<<"x">>)}}

ExampleLjungBox ==
    MkObj(<< <<"lags", JList(<<JInt(1)>>)>>, <<"statistics", JList(<<JFloat(150)>>)>>,
           <<"pvalues", JList(<<JFloat(50)>>)>> >>)
ExampleJarqueBera == MkObj(<< <<"statistic", JFloat(250)>>, <<"pvalue", JFloat(50)>> >>)

\* Ljung-Box records whose lags are a dict of two keys, in either order.
KeyedLjungBoxes ==
    {MkObj(<< <<"lags", MkObj(entries)>>,
              <<"statistics", JList(<<JFloat(150), JFloat(250)>>)>>,
              <<"pvalues", JList(<<JFloat(50), JFloat(3)>>)>> >>) :
        entries \in {<< <<"a", JInt(2)>>, <<"b", JInt(1)>> >>,
                     << <<"b", JInt(1)>>, <<"a", JInt(2)>> >>}}

\* Diagnostics documents: None, the empty document, a document with neither
\* test, documents with one record varying, documents whose lags are a dict,
\* and values that are not dicts.
DiagDocs ==
    {JNull, EmptyObj, MkObj(<< <<"ljung_box_residuals", EmptyObj>> >>), JInt(1), JList(<<>>)}
    \cup {MkObj(<< <<"ljung_box_test", lb>>, <<"jarque_bera_test", jb>> >>) :
            lb \in LjungBoxObjs \cup {JNull}, jb \in {Absent, ExampleJarqueBera}}
    \cup {MkObj(<< <<"ljung_box_test", lb>>, <<"jarque_bera_test", jb>> >>) :
            lb \in {Absent, ExampleLjungBox}, jb \in JarqueBeraObjs \cup {JNull}}
    \cup {MkObj(<< <<"ljung_box_test", lb>>, <<"jarque_bera_test", ExampleJarqueBera>> >>) :
            lb \in KeyedLjungBoxes}

ExampleModel ==
    MkObj(<< <<"spec", ExampleSpec>>,
           <<"parameters", MkObj(<< <<"arima", ExampleArimaParams>>,
                                 <<"garch", ExampleGarchParams>> >>)>> >>)

InitDiag ==
    /\ diagnostics_json \in DiagDocs
    /\ model_json = ExampleModel
    /\ fs \in [{PathStr(DiagPlotPath), PathStr(DiagReportPath)} -> {NoFile}]
            \cup {[p \in {PathStr(DiagPlotPath), PathStr(DiagReportPath)} |->
                    IF p = PathStr(DiagPlotPath) THEN ImageFile(PngBytes) ELSE NoFile]}
    /\ dirs = {DirStr(DiagPlotPath.parent)}
    /\ call = NoLoaderCall
    /\ result = NoResult
    /\ fmt = NoCall
    /\ report = NoReport
    /\ env = NoEnv
    /\ cli = NoCli

GenerateDiagnosticsReport ==
    \E data \in FitFrames, plot_path \in Known(PlotPaths),
       output_path \in Known(TextReportPaths),
       use_data_uri \in BOOLEAN, now \in Clock :
        \E e \in {generate_diagnostics_report(fs, dirs, model_json, data,
                        diagnostics_json, plot_path, output_path, use_data_uri, now)} :
           /\ call' = [fn |-> "generate_diagnostics_report",
                       path |-> PathStr(output_path),
                       data |-> data, plot_path |-> plot_path,
                       output_path |-> output_path, use_data_uri |-> use_data_uri,
                       now |-> now, existed |-> FileExists(fs, output_path)]
           /\ result' = e.out
           /\ fs' = e.files
           /\ dirs' = e.dirs
           /\ UNCHANGED <<model_json, fmt, report, diagnostics_json, env, cli>>

NextDiag == GenerateDiagnosticsReport

SpecDiag == InitDiag /\ [][NextDiag]_vars

\* A list of numbers.
NumberList(v) == v.k = "list" /\ \A i \in DOMAIN v.l : IsNumber(v.l[i])

\* A diagnostics document whose test records, where present, are records and
\* whose fields, where present, hold what the external tool writes: parallel
\* arrays of numbers, and numbers.
PresentWellTyped(dj) ==
    /\ HasGet(dj)
    /\ HasKey(dj, "ljung_box_test") =>
          /\ HasGet(dj.o["ljung_box_test"])
          /\ \A f \in DOMAIN dj.o["ljung_box_test"].o :
                NumberList(dj.o["ljung_box_test"].o[f])
    /\ HasKey(dj, "jarque_bera_test") =>
          /\ HasGet(dj.o["jarque_bera_test"])
          /\ \A f \in DOMAIN dj.o["jarque_bera_test"].o :
                IsNumber(dj.o["jarque_bera_test"].o[f])

\* The report the last call wrote.
Written == fs[PathStr(call.output_path)].text

HasLine(lines, line) == \E i \in DOMAIN lines : lines[i] = line

\* The report a call writes for an absent document, all else as in the last
\* call.
AbsentRendering ==
    DiagnosticsReportText(fs, model_json, call.data, JNull, call.plot_path,
                          call.use_data_uri, call.now).val

\* C13: generate_diagnostics_report writes the report whatever optional
\* diagnostics are missing: for None the results part is the notice
\* "Diagnostic test results not available." with no test table; for a
\* document lacking ljung_box_test / jarque_bera_test, or whose records lack
\* fields, the section is omitted or reduced and the report is written; the
\* empty document {} is rendered exactly as None.
C13_MissingDiagnostics ==
    call.fn = "generate_diagnostics_report" =>
        /\ diagnostics_json = JNull =>
              /\ result.exc = "none"
              /\ Written.body = <<NotAvailable>>
        /\ diagnostics_json = EmptyObj =>
              /\ result.exc = "none"
              /\ Written = AbsentRendering
        /\ PresentWellTyped(diagnostics_json) =>
              /\ result.exc = "none"
              /\ Written.title = "ARIMA-GARCH Diagnostic Analysis Report"
              /\ ~HasKey(diagnostics_json, "ljung_box_test") =>
                    ~HasLine(Written.body, "### Ljung-Box Test Results")
              /\ ~HasKey(diagnostics_json, "jarque_bera_test") =>
                    ~HasLine(Written.body, "### Jarque-Bera Normality Test")

\* A report was written for a document whose Ljung-Box record has p-values
\* but neither lags nor statistics, and no Jarque-Bera record: the table has
\* no rows and the Jarque-Bera section is left out.
C13_Witness ==
    /\ call.fn = "generate_diagnostics_report"
    /\ result.exc = "none"
    /\ HasKey(diagnostics_json, "ljung_box_test")
    /\ DOMAIN diagnostics_json.o["ljung_box_test"].o = {"pvalues"}
    /\ diagnostics_json.o["ljung_box_test"].o["pvalues"] = JList(<<JFloat(3)>>)
    /\ ~HasKey(diagnostics_json, "jarque_bera_test")
    /\ Len(Written.body) = 2
    /\ Written.body[1] = "### Ljung-Box Test Results"

\* ---------------------------------------------------------------------------
\* The forecast and simulation reports as files
\* ---------------------------------------------------------------------------

\* df[col] on a table without that column
NoColumn(col) == Raise("KeyError", <<col>>)

\* The mean, variance and std_dev cells of a forecast table are held in
\* millionths; the step cells are whole numbers.
RECURSIVE NumDigits(_)
NumDigits(n) == IF n < 10 THEN 1 ELSE 1 + NumDigits(n \div 10)

RECURSIVE Pow10(_)
Pow10(n) == IF n = 0 THEN 1 ELSE 10 * Pow10(n - 1)

\* f"{x:.<places>f}" of x = units / 10^places.
Decimal(units, places) ==
    LET a == IF units < 0 THEN 0 - units ELSE units
        frac == a % Pow10(places)
    IN (IF units < 0 THEN "-" ELSE "") \o ToString(a \div Pow10(places)) \o "."
        \o Zeros(places - NumDigits(frac)) \o ToString(frac)

\* A cell in millionths as a float.
Millionths(units) == FDec(units, 6)

\* Variant: the interval is two standard deviations wide on each side.
RowLine_z_two(row) ==
    (CHOOSE one \in {(CHOOSE two \in {(CHOOSE three \in
            {"| " \o ToString(row["step"]) \o " | " \o FFormat(mean, 6)
                \o " | " \o FFormat(std_dev, 6) \o " | " \o FFormat(ci_lower, 6)
                \o " | " \o FFormat(ci_upper, 6) \o " |" :
             ci_lower \in {FSub(mean, width)}, ci_upper \in {FAdd(mean, width)}} : TRUE) :
          width \in {FMul(FInt(2), std_dev)}} : TRUE) :
       mean \in {Millionths(row["mean"])}, std_dev \in {Millionths(row["std_dev"])}} : TRUE)

\* One line of the detailed forecast table.
RowLine(row) ==
    (CHOOSE one \in {(CHOOSE two \in {(CHOOSE three \in
            {"| " \o ToString(row["step"]) \o " | " \o FFormat(mean, 6)
                \o " | " \o FFormat(std_dev, 6) \o " | " \o FFormat(ci_lower, 6)
                \o " | " \o FFormat(ci_upper, 6) \o " |" :
             ci_lower \in {FSub(mean, width)}, ci_upper \in {FAdd(mean, width)}} : TRUE) :
          width \in {FMul(FDec(196, 2), std_dev)}} : TRUE) :
       mean \in {Millionths(row["mean"])}, std_dev \in {Millionths(row["std_dev"])}} : TRUE)

ForecastRow(step, mean, std_dev) ==
    [step |-> step, mean |-> mean, variance |-> 0, std_dev |-> std_dev]

\* Rows of a forecast table: the two rows of the end-to-end scenario, rows
\* with a zero mean, a row whose mean is the second row's and a hundredth of
\* it more, and a row with a negative mean.
ForecastRows ==
    {ForecastRow(1, 50000, 100000), ForecastRow(2, 40000, 110000),
     ForecastRow(2, 0, 100000), ForecastRow(1, 0, 200000),
     ForecastRow(3, 40400, 110003), ForecastRow(1, -250000, 20000)}

\* The rows of the tables considered below and their lines, worked out once.
TabulatedRows ==
    ForecastRows \cup {RowWith(ForecastColumns, "step", i) : i \in 1..(MaxHorizon + 2)}
RowLines == [row \in TabulatedRows |-> RowLine(row)]

\* for _, row in forecast_df.iterrows(): report += ...
DetailedTable(forecast_df) ==
    [i \in DOMAIN forecast_df.rows |->
        IF forecast_df.rows[i] \in DOMAIN RowLines THEN RowLines[forecast_df.rows[i]]
        ELSE RowLine(forecast_df.rows[i])]

\* The Trend bullet of a forecast whose first and last mean cells are given.
TrendBullet(first, last) ==
    (CHOOSE one \in {(CHOOSE two \in
        {IF FLess(FAbs(trend), limit)
         THEN "- **Trend:** The forecast exhibits a relatively stable trajectory with minimal drift."
         ELSE IF FGreater(trend, FZero)
         THEN "- **Trend:** The forecast shows an upward trend of approximately "
                 \o FFormat(trend, 4) \o " over the horizon."
         ELSE "- **Trend:** The forecast shows a downward trend of approximately "
                 \o FFormat(FAbs(trend), 4) \o " over the horizon." :
         trend \in {FSub(to, from)}, limit \in {FMul(FDec(1, 2), FAbs(from))}} : TRUE) :
       from \in {Millionths(first)}, to \in {Millionths(last)}} : TRUE)

\* The bullets of the pairs of mean cells considered below, worked out once.
TabulatedMeans == {row["mean"] : row \in TabulatedRows}
TrendBulletOf == [pair \in TabulatedMeans \X TabulatedMeans |-> TrendBullet(pair[1], pair[2])]

\* The Trend bullets of the key insights.
TrendBullets(forecast_df) ==
    LET mean_forecast == [i \in DOMAIN forecast_df.rows |-> forecast_df.rows[i]["mean"]]
        ends == <<mean_forecast[1], mean_forecast[Len(mean_forecast)]>>
    IN IF Len(mean_forecast) > 1
       THEN IF ends \in DOMAIN TrendBulletOf THEN <<TrendBulletOf[ends]>>
            ELSE <<TrendBullet(ends[1], ends[2])>>
       ELSE <<>>

\* The text of the forecast report, or the exception raised while building
\* it, in the order the function evaluates: the summary reads the 'mean' and
\* 'std_dev' columns, then the image is rendered, then each row is read
\* ('step' first), and the closing template reads the orders of the model
\* document.  Of the figures computed from the forecast table, the detailed
\* table and the Trend bullets are carried.
ForecastReportText(files, mj, forecast_df, plot_path, use_data_uri, now) ==
    LET missing == MissingCols(<<"mean", "std_dev">>, forecast_df) IN
    IF missing # <<>> THEN NoColumn(missing[1])
    ELSE LET image == get_image_markdown(files, plot_path,
                          "Forecast Plot with Confidence Intervals", use_data_uri) IN
    IF image.exc # "none" THEN image
    ELSE IF forecast_df.rows # <<>> /\ "step" \notin Range(forecast_df.columns)
    THEN NoColumn("step")
    ELSE LET r == ForecastFields(mj, forecast_df) IN
    IF r.exc # "none"
    THEN Raise(r.exc, <<"object", "has", "no", "attribute", "'get'">>)
    ELSE Ok([title |-> "ARIMA-GARCH Forecast Report", generated |-> now,
             model_spec |-> r.model_type, n_obs |-> r.horizon,
             forecast |-> r, table |-> DetailedTable(forecast_df),
             trend |-> TrendBullets(forecast_df),
             image |-> image.val])

\* generate_forecast_report(model_json, forecast_df, plot_path, output_path,
\* use_data_uri) called at clock reading `now`: the text is built, the
\* parent directories of output_path are created, the text is written and
\* output_path is returned.
generate_forecast_report(files, directories, mj, forecast_df, plot_path, output_path, use_data_uri, now) ==
    (CHOOSE one \in {IF text.exc # "none" THEN Failed(text, files, directories)
                      ELSE SaveReport(files, directories, output_path, text.val) :
         text \in {ForecastReportText(files, mj, forecast_df, plot_path, use_data_uri, now)}} : TRUE)

(***************************************************************************)
(* The formatter and the forecast report applied to a model document.      *)
(* The report is written to reports/daily/report.md on a disk that starts  *)
(* empty; `report` keeps the fields of the text that depend on the model   *)
(* document, or the exception.                                             *)
(***************************************************************************)
InitFmt ==
    /\ model_json \in ModelDocs
    /\ fmt = NoCall
    /\ report = NoReport
    /\ fs = [p \in {PathStr(OutPlotPath), PathStr(OutReportPath)} |-> NoFile]
    /\ call = NoLoaderCall
    /\ result = NoResult
    /\ RestIdle

FormatModelSpec ==
    /\ fmt' = format_model_spec(model_json)
    /\ UNCHANGED <<model_json, report, fs, call, result, outside>>

\* The clock stands at reading 1 while these runs last.
GenerateForecastReport ==
    \E df \in ForecastFrames, use_data_uri \in BOOLEAN, now \in {1} :
        \E e \in {generate_forecast_report(fs, dirs, model_json, df, OutPlotPath,
                        OutReportPath, use_data_uri, now)} :
           /\ report' = IF e.out.exc = "none"
                         THEN e.files[PathStr(OutReportPath)].text.forecast
                         ELSE [NoReport EXCEPT !.exc = e.out.exc]
           /\ result' = e.out
           /\ fs' = e.files
           /\ dirs' = e.dirs
           /\ UNCHANGED <<model_json, fmt, call, diagnostics_json, env, cli>>

NextFmt == FormatModelSpec \/ GenerateForecastReport

SpecFmt == InitFmt /\ [][NextFmt]_vars

\* simulation_df.groupby('path')['return'].last().values: for each path
\* identifier in ascending order, the return of its last row.
TerminalValues(df) ==
    LET groups == GroupSizes(df, "path")
        last(key) == CHOOSE i \in DOMAIN df.rows :
                        /\ df.rows[i]["path"] = key
                        /\ \A j \in DOMAIN df.rows : df.rows[j]["path"] = key => j <= i
    IN [n \in DOMAIN groups |-> df.rows[last(groups[n].key)]["return"]]

\* The text of the simulation report, or the exception raised while building
\* it.
SimulationReportText(files, mj, simulation_df, plot_path, n_paths, length, use_data_uri, now) ==
    IF "return" \notin Range(simulation_df.columns) THEN NoColumn("return")
    ELSE LET all_values == [i \in DOMAIN simulation_df.rows |->
                                simulation_df.rows[i]["return"]]
             image == get_image_markdown(files, plot_path,
                          "Simulation Paths with Percentile Bands", use_data_uri) IN
    IF Len(all_values) > 0 /\ "path" \notin Range(simulation_df.columns)
    THEN NoColumn("path")
    ELSE IF image.exc # "none" THEN image
    ELSE Ok([title |-> "ARIMA-GARCH Simulation Report", generated |-> now,
             model_spec |-> format_model_spec(mj).val, n_obs |-> Len(all_values),
             simulation |-> [n_paths |-> n_paths, length |-> length,
                       terminal_values |->
                            IF Len(all_values) > 0 THEN TerminalValues(simulation_df)
                            ELSE <<>>],
             image |-> image.val])

\* generate_simulation_report(model_json, simulation_df, plot_path,
\* output_path, n_paths, length, use_data_uri) called at clock reading `now`.
generate_simulation_report(files, directories, mj, simulation_df, plot_path, output_path, n_paths, length, use_data_uri, now) ==
    LET text == SimulationReportText(files, mj, simulation_df, plot_path, n_paths,
                                     length, use_data_uri, now)
    IN  IF text.exc # "none" THEN Failed(text, files, directories)
        ELSE SaveReport(files, directories, output_path, text.val)

\* ---------------------------------------------------------------------------
\* The four report generators over disks
\* ---------------------------------------------------------------------------

\* A report left at the output path by an earlier run.
OldReport == TextFile(ReportText("Earlier report", 0, "", 0, <<>>, ""))

ExampleDiagnostics ==
    MkObj(<< <<"ljung_box_test", ExampleLjungBox>>, <<"jarque_bera_test", ExampleJarqueBera>> >>)

\* A two-step forecast table.
ExampleForecast ==
    DataFrame(ForecastColumns, [i \in 1..2 |-> RowWith(ForecastColumns, "step", i)])

\* A panel of two paths of two observations; the return of a row is its
\* path identifier plus its observation number.
ExamplePanel ==
    DataFrame(SimColumns,
        [i \in 1..4 |->
            [c \in Range(SimColumns) |->
                CASE c = "path" -> (i - 1) \div 2
                  [] c = "observation" -> (i - 1) % 2
                  [] c = "return" -> ((i - 1) \div 2) + ((i - 1) % 2)
                  [] OTHER -> 0]])

OutDirs == Ancestors(OutReportPath.parent) \cup Ancestors(OutPlotPath.parent)

\* Disks on which every existing file has its directory, and every
\* directory its parent.
ConsistentDisk(files, directories) ==
    /\ files[PathStr(OutPlotPath)] # NoFile => Ancestors(OutPlotPath.parent) \subseteq directories
    /\ files[PathStr(OutReportPath)] # NoFile =>
            Ancestors(OutReportPath.parent) \subseteq directories
    /\ DirStr(OutReportPath.parent) \in directories =>
            Ancestors(OutReportPath.parent) \subseteq directories

InitOut ==
    /\ model_json = ExampleModel
    /\ diagnostics_json = ExampleDiagnostics
    /\ fs \in [{PathStr(OutPlotPath), PathStr(OutReportPath)} ->
                {NoFile, ImageFile(PngBytes), OldReport}]
    /\ fs[PathStr(OutPlotPath)] \in {NoFile, ImageFile(PngBytes)}
    /\ fs[PathStr(OutReportPath)] \in {NoFile, OldReport}
    /\ dirs \in SUBSET OutDirs
    /\ ConsistentDisk(fs, dirs)
    /\ call = NoLoaderCall
    /\ result = NoResult
    /\ fmt = NoCall
    /\ report = NoReport
    /\ env = NoEnv
    /\ cli = NoCli

GenerateForecastReportFile ==
    \E plot_path \in Known(PlotPaths), output_path \in Known(TextReportPaths),
       use_data_uri \in BOOLEAN, now \in Clock :
        \E e \in {generate_forecast_report(fs, dirs, model_json, ExampleForecast,
                        plot_path, output_path, use_data_uri, now)} :
           /\ call' = [fn |-> "generate_forecast_report",
                       path |-> PathStr(output_path),
                       data |-> ExampleForecast, plot_path |-> plot_path,
                       output_path |-> output_path, use_data_uri |-> use_data_uri,
                       now |-> now, existed |-> FileExists(fs, output_path)]
           /\ result' = e.out
           /\ fs' = e.files
           /\ dirs' = e.dirs
           /\ UNCHANGED <<model_json, fmt, report, diagnostics_json, env, cli>>

GenerateSimulationReport ==
    \E plot_path \in Known(PlotPaths), output_path \in Known(TextReportPaths),
       use_data_uri \in BOOLEAN, now \in Clock :
        \E e \in {generate_simulation_report(fs, dirs, model_json, ExamplePanel,
                        plot_path, output_path, 2, 2, use_data_uri, now)} :
           /\ call' = [fn |-> "generate_simulation_report",
                       path |-> PathStr(output_path),
                       data |-> ExamplePanel, plot_path |-> plot_path,
                       output_path |-> output_path, use_data_uri |-> use_data_uri,
                       now |-> now, existed |-> FileExists(fs, output_path)]
           /\ result' = e.out
           /\ fs' = e.files
           /\ dirs' = e.dirs
           /\ UNCHANGED <<model_json, fmt, report, diagnostics_json, env, cli>>

NextOut ==
    \/ GenerateFitReport
    \/ GenerateForecastReportFile
    \/ GenerateDiagnosticsReport
    \/ GenerateSimulationReport

SpecOut == InitOut /\ [][NextOut]_vars

ReportGenerators ==
    {"generate_fit_report", "generate_forecast_report", "generate_diagnostics_report",
     "generate_simulation_report"}

\* The alternative text each generator gives its image.
AltText ==
    [generate_fit_report |-> "Fit Diagnostics Plot",
     generate_forecast_report |-> "Forecast Plot with Confidence Intervals",
     generate_diagnostics_report |-> "Residual Diagnostic Plots",
     generate_simulation_report |-> "Simulation Paths with Percentile Bands"]

\* The embed flag was set and the image file is there.
Embeds == call.use_data_uri /\ FileExists(fs, call.plot_path)

\* C14: in every report the image reference is the base64 data URI
\* ("data:image/png;base64,..." for a .png file) exactly when the embed flag
\* is set and the image file exists; in every other case it is the image's
\* base name, and no error is raised.
C14_ImageReference ==
    (call.fn \in ReportGenerators /\ AcceptedTable(call.data)
        /\ call.data.k = "df") =>
        /\ result.exc = "none"
        /\ Written.image =
                "![" \o AltText[call.fn] \o "]("
                    \o (IF Embeds
                        THEN "data:image/png;base64,"
                                \o b64encode(fs[PathStr(call.plot_path)].bytes)
                        ELSE call.plot_path.name)
                    \o ")"

\* The forecast report embedded the four bytes of the plot file.
C14_Witness ==
    /\ call.fn = "generate_forecast_report"
    /\ Embeds
    /\ result.exc = "none"
    /\ Written.image =
          "![Forecast Plot with Confidence Intervals](data:image/png;base64,iVBORw==)"

\* The title each generator gives its report.
TitleOf ==
    [generate_fit_report |-> "ARIMA-GARCH Model Fit Report",
     generate_forecast_report |-> "ARIMA-GARCH Forecast Report",
     generate_diagnostics_report |-> "ARIMA-GARCH Diagnostic Analysis Report",
     generate_simulation_report |-> "ARIMA-GARCH Simulation Report"]

\* A step in which a report generator returned.
ReportStep ==
    /\ <<call, result, fs, dirs>>' # <<call, result, fs, dirs>>
    /\ call'.fn \in ReportGenerators
    /\ result'.exc = "none"

\* C15: a report generator that succeeds has created every missing parent
\* directory of output_path and nothing else, has written at output_path one
\* file that holds the new report alone (earlier content is replaced, not
\* appended to), has returned output_path itself, and has left every other
\* file as it was.
C15_FileEffects ==
    [][ReportStep =>
          LET out == PathStr(call'.output_path) IN
          /\ dirs' = dirs \cup Ancestors(call'.output_path.parent)
          /\ fs'[out] = TextFile(fs'[out].text)
          /\ fs'[out].text.title = TitleOf[call'.fn]
          /\ fs'[out].text.generated = call'.now
          /\ result'.val = JPath(out)
          /\ DOMAIN fs' = DOMAIN fs
          /\ \A other \in DOMAIN fs \ {out} : fs'[other] = fs[other]
       ]_vars

\* The fit report replaced an earlier report at reports/daily/report.md.
C15_Witness ==
    /\ call.fn = "generate_fit_report"
    /\ call.existed
    /\ result.exc = "none"
    /\ result.val = JPath("reports/daily/report.md")
    /\ fs["reports/daily/report.md"] = TextFile(Written)
    /\ Written.title = "ARIMA-GARCH Model Fit Report"
    /\ {"reports", "reports/daily"} \subseteq dirs

\* ---------------------------------------------------------------------------
\* Plot generators (plotting.py)
\* ---------------------------------------------------------------------------

\* A figure saved as PNG: the image bytes and what the figure shows.
PlotFile(drawn) == [k |-> "image", bytes |-> PngBytes, drawn |-> drawn]

\* plt.savefig(path): the file is created or replaced; the directory that
\* will contain it must already exist.
savefig(files, directories, path, drawn) ==
    write_file(files, directories, path, PlotFile(drawn))

\* The default targets of plot_forecast and plot_simulation_paths.
ForecastDefault == MkPath(<<>>, "forecast", <<".", "p", "n", "g">>)
SimulationDefault == MkPath(<<>>, "simulation_paths", <<".", "p", "n", "g">>)

\* plot_fit_diagnostics(data, model_json, output_dir): the directory is
\* created first, the figure is drawn from the first column, then saved as
\* output_dir / 'fit_diagnostics.png'.
plot_fit_diagnostics(files, directories, data, mj, output_dir) ==
    (CHOOSE one \in {IF summary.exc # "none" THEN Failed(summary, files, made)
                      ELSE savefig(files, made,
                               MkPath(output_dir, "fit_diagnostics", <<".", "p", "n", "g">>),
                               [title |-> "Time Series Data - " \o format_model_spec(mj).val,
                                values |-> FirstColumn(data),
                                summary |-> <<"Model: " \o format_model_spec(mj).val,
                                              "Observations: " \o ToString(Len(data.rows))>>
                                                \o Tail(summary.val)]) :
         made \in {mkdir_parents(directories, output_dir)},
         summary \in {SummaryStatistics(data)}} : TRUE)

\* plot_forecast(model_path, forecast_csv, save): both files are loaded, the
\* figure is drawn and saved at `save`, or at forecast.png in the current
\* directory when save is None.  No directory is created.
plot_forecast(files, directories, model_path, forecast_csv, save) ==
    LET model == load_model_json(files, model_path) IN
    IF model.exc # "none" THEN Failed(model, files, directories)
    ELSE LET forecast == load_forecast_csv(files, forecast_csv) IN
    IF forecast.exc # "none" THEN Failed(forecast, files, directories)
    ELSE savefig(files, directories, IF save = JNull THEN ForecastDefault ELSE save,
                 [title |-> "Forecast - " \o format_model_spec(model.val).val,
                  steps |-> [i \in DOMAIN forecast.val.rows |-> forecast.val.rows[i]["step"]],
                  mean |-> [i \in DOMAIN forecast.val.rows |-> forecast.val.rows[i]["mean"]]])

\* plot_residual_diagnostics(model_path, data_path, diagnostics_json,
\* output_dir): the directory is created first, the model and the data are
\* loaded, residuals are drawn from the generator seeded with 42, and the
\* figure is saved as output_dir / 'residual_diagnostics.png'.
\* Variant: the seed is taken from the first value of the data.
synthetic_residuals_seeded_by_data(model, data) ==
    [seed |-> 42 + data.rows[1]["value"], n |-> Len(data.rows)]

\* np.random.seed(42); residuals = np.random.standard_normal(n_obs): the
\* stream of numpy's generator is told by the seed and the number of draws.
synthetic_residuals(model, data) == [seed |-> 42, n |-> Len(data.rows)]

\* diagnostics_path stands for the diagnostics_json argument, which the
\* function never reads.
plot_residual_diagnostics(files, directories, model_path, data_path, diagnostics_path, output_dir) ==
    LET made == mkdir_parents(directories, output_dir)
        model == load_model_json(files, model_path) IN
    IF model.exc # "none" THEN Failed(model, files, made)
    ELSE LET data == load_csv_data(files, data_path) IN
    IF data.exc # "none" THEN Failed(data, files, made)
    ELSE savefig(files, made,
                 MkPath(output_dir, "residual_diagnostics", <<".", "p", "n", "g">>),
                 [title |-> "Residual Diagnostics - " \o format_model_spec(model.val).val,
                  residuals |-> synthetic_residuals(model.val, data.val)])

\* The global generator after plot_residual_diagnostics: once both files
\* are loaded, np.random.seed(42) and n_obs draws.
residual_rng(rng, files, model_path, data_path) ==
    LET model == load_model_json(files, model_path)
        data == load_csv_data(files, data_path)
    IN IF model.exc # "none" \/ data.exc # "none" THEN rng
       ELSE [seeded |-> TRUE, seed |-> 42, draws |-> Len(data.val.rows)]

\* sim_data[sim_data['path'] == path_id], as (observation, return) points.
PathData(sim_data, path_id) ==
    LET path_data == SelectSeq(sim_data.rows, LAMBDA r : r["path"] = path_id)
    IN [i \in DOMAIN path_data |-> <<path_data[i]["observation"], path_data[i]["return"]>>]

\* min(a, b)
Min2(a, b) == IF a <= b THEN a ELSE b

\* plot_simulation_paths(simulation_csv, n_paths_to_plot, output_path): the
\* panel is parsed, the paths numbered 0..n_to_plot-1 are drawn, and the
\* figure is saved at output_path, or at simulation_paths.png in the
\* current directory when output_path is None.  No directory is created.
plot_simulation_paths(files, directories, simulation_csv, n_paths_to_plot, output_path) ==
    LET parsed == parse_simulation_csv(files, simulation_csv) IN
    IF parsed.exc # "none" THEN Failed(parsed, files, directories)
    ELSE LET sim_data == parsed.val.df
             n_to_plot == Min2(n_paths_to_plot, parsed.val.n_paths)
         IN savefig(files, directories,
                    IF output_path = JNull THEN SimulationDefault ELSE output_path,
                    [title |-> "Simulated Paths (showing " \o ToString(n_to_plot)
                                  \o " of " \o ToString(parsed.val.n_paths) \o ")",
                     paths |-> {sim_data.rows[i]["path"] : i \in
                                  {j \in DOMAIN sim_data.rows :
                                      sim_data.rows[j]["path"] \in 0..(n_to_plot - 1)}},
                     \* for path_id in range(n_to_plot): one line per path_id
                     trajectories |->
                        [n \in 1..n_to_plot |->
                            PathData(sim_data, n - 1)],
                     terminal_values |->
                        LET last == SelectSeq(sim_data.rows, LAMBDA r :
                                        r["observation"] = parsed.val.n_obs_per_path - 1)
                        IN [i \in DOMAIN last |-> last[i]["return"]]])

\* ---------------------------------------------------------------------------
\* The four plot generators over disks
\* ---------------------------------------------------------------------------

ModelIn == "model.json"
DataIn == "data.csv"
ForecastIn == "forecast.csv"
SimulationIn == "simulation.csv"

\* The text of a model file holding the example specification.
ExampleModelText ==
    TObj(<< <<"spec",
              TObj(<< <<"arima", TObj(<< <<"p", TNum(1)>>, <<"d", TNum(0)>>,
                                         <<"q", TNum(1)>> >>)>>,
                      <<"garch", TObj(<< <<"p", TNum(1)>>, <<"q", TNum(1)>> >>)>> >>)>>,
            <<"parameters", TObj(<<>>)>> >>)

ExampleModelFile == JsonFile(ExampleModelText)
ExampleSeriesFile ==
    CsvFile(SeriesColumns, [i \in 1..2 |-> Row(RowWith(SeriesColumns, "value", i))])
ExampleForecastFile ==
    CsvFile(ForecastColumns, [i \in DOMAIN ExampleForecast.rows |-> Row(ExampleForecast.rows[i])])
ExamplePanelFile ==
    CsvFile(SimColumns, [i \in DOMAIN ExamplePanel.rows |-> Row(ExamplePanel.rows[i])])

\* The directory the caller asks the plots to be put in, and the targets in it.
PlotDir == <<"plots", "run1">>
PlotTargets ==
    {MkPath(PlotDir, "fit_diagnostics", <<".", "p", "n", "g">>),
     MkPath(PlotDir, "residual_diagnostics", <<".", "p", "n", "g">>),
     MkPath(PlotDir, "forecast", <<".", "p", "n", "g">>),
     MkPath(PlotDir, "simulation", <<".", "p", "n", "g">>),
     ForecastDefault, SimulationDefault}

\* An image left at a target by an earlier run.
OldPlot == PlotFile([title |-> "Earlier plot"])

InitPlot ==
    /\ model_json = ExampleModel
    /\ diagnostics_json = ExampleDiagnostics
    /\ dirs \in {{}, {"plots"}, Ancestors(PlotDir)}
    /\ \E model_file \in {ExampleModelFile, NoFile}, old \in BOOLEAN :
          fs = [p \in {ModelIn, DataIn, ForecastIn, SimulationIn}
                        \cup {PathStr(t) : t \in PlotTargets} |->
                  CASE p = ModelIn -> model_file
                    [] p = DataIn -> ExampleSeriesFile
                    [] p = ForecastIn -> ExampleForecastFile
                    [] p = SimulationIn -> ExamplePanelFile
                    [] OTHER ->
                        LET t == CHOOSE t \in PlotTargets : PathStr(t) = p IN
                        IF old /\ DirExists(dirs, t.parent) THEN OldPlot ELSE NoFile]
    /\ call = NoLoaderCall
    /\ result = NoResult
    /\ fmt = NoCall
    /\ report = NoReport
    /\ env = NoEnv
    /\ cli = NoCli

\* One call of a plot generator: what was asked, what was on the disk before,
\* and the effect.
PlotCall(fn, data, target, e, rng) ==
    /\ call' = [fn |-> fn, path |-> PathStr(target), data |-> data, target |-> target,
                existed |-> FileExists(fs, target),
                dir_existed |-> DirExists(dirs, target.parent)]
    /\ result' = e.out
    /\ fs' = e.files
    /\ dirs' = e.dirs
    /\ env' = [env EXCEPT !.rng = rng]
    /\ UNCHANGED <<model_json, fmt, report, diagnostics_json, cli>>

PlotFitDiagnostics ==
    \E data \in FitFrames :
        \E e \in {plot_fit_diagnostics(fs, dirs, data, model_json, PlotDir)} :
            PlotCall("plot_fit_diagnostics", data,
                     MkPath(PlotDir, "fit_diagnostics", <<".", "p", "n", "g">>), e, env.rng)

PlotForecast ==
    \E save \in {JNull, MkPath(PlotDir, "forecast", <<".", "p", "n", "g">>)} :
        \E e \in {plot_forecast(fs, dirs, ModelIn, ForecastIn, save)} :
            PlotCall("plot_forecast", JNull,
                     IF save = JNull THEN ForecastDefault ELSE save, e, env.rng)

PlotResidualDiagnostics ==
    \E e \in {plot_residual_diagnostics(fs, dirs, ModelIn, DataIn, JNull, PlotDir)} :
        PlotCall("plot_residual_diagnostics", JNull,
                 MkPath(PlotDir, "residual_diagnostics", <<".", "p", "n", "g">>), e,
                 residual_rng(env.rng, fs, ModelIn, DataIn))

PlotSimulationPaths ==
    \E n_paths_to_plot \in {1, 10},
       output_path \in {JNull, MkPath(PlotDir, "simulation", <<".", "p", "n", "g">>)} :
        \E e \in {plot_simulation_paths(fs, dirs, SimulationIn, n_paths_to_plot, output_path)} :
            PlotCall("plot_simulation_paths", JNull,
                     IF output_path = JNull THEN SimulationDefault ELSE output_path, e,
                     env.rng)

NextPlot ==
    \/ PlotFitDiagnostics
    \/ PlotForecast
    \/ PlotResidualDiagnostics
    \/ PlotSimulationPaths

SpecPlot == InitPlot /\ [][NextPlot]_vars

PlotGenerators ==
    {"plot_fit_diagnostics", "plot_forecast", "plot_residual_diagnostics",
     "plot_simulation_paths"}

\* The call was given inputs every loader accepts and a numeric table.
ValidPlotInputs ==
    /\ fs[ModelIn] = ExampleModelFile
    /\ call.fn = "plot_fit_diagnostics" => call.data.k = "df" /\ ~Empty(call.data)

\* C16: a plot generator called with valid inputs succeeds whether or not the
\* directory of its target existed: afterwards the directory exists, the
\* target holds the new figure alone, and the target's path is returned.
C16_CreatesDirectory ==
    (call.fn \in PlotGenerators /\ ValidPlotInputs) =>
        /\ result.exc = "none"
        /\ result.val = JPath(call.path)
        /\ DirExists(dirs, call.target.parent)
        /\ FileExists(fs, call.target)
        /\ fs[call.path] = PlotFile(fs[call.path].drawn)

\* ---------------------------------------------------------------------------
\* The command-line interface (cli.py)
\* ---------------------------------------------------------------------------

Commands == {"fit", "forecast", "diagnostics", "simulate"}

\* An entry of the run's record of calls: a function is called, returns or
\* raises.  `val` is the plot path a report generator is called with, or the
\* value a plot generator returns.
Ev(kind, fn, val) == [ev |-> kind, fn |-> fn, val |-> val]

\* A function called inside the try block, and its outcome.
Stage(fn, out) == [fn |-> fn, out |-> out]

\* The events of calling the stages one after the other: the first exception
\* ends the sequence.
RECURSIVE Calls(_)
Calls(stages) ==
    IF stages = <<>> THEN <<>>
    ELSE LET s == Head(stages) IN
         IF s.out.exc = "none"
         THEN <<Ev("call", s.fn, JNull), Ev("return", s.fn, JNull)>> \o Calls(Tail(stages))
         ELSE <<Ev("call", s.fn, JNull), Ev("raise", s.fn, JNull)>>

\* The outcome of the sequence: the first exception, or the last outcome.
RECURSIVE Outcome(_)
Outcome(stages) ==
    IF Len(stages) = 1 \/ Head(stages).out.exc # "none" THEN Head(stages).out
    ELSE Outcome(Tail(stages))

\* click.echo(text): a line of standard output.  `mark` says that the line
\* opens with the check mark; `at` is the number of events before it.
Line(mark, text, at) == [mark |-> mark, text |-> text, at |-> at]

\* Variant: the handler ends the process with status 0.
except_handler_exit_zero(c, events, e) ==
    [c EXCEPT !.trace = @ \o events,
              !.err = Append(@, [prefix |-> "Error:", exc |-> e.exc, msg |-> e.msg]),
              !.exit = 0,
              !.pc = "failed"]

\* except Exception as e: click.echo(f"Error: {e}", err=True); sys.exit(1)
except_handler(c, events, e) ==
    [c EXCEPT !.trace = @ \o events,
              !.err = Append(@, [prefix |-> "Error:", exc |-> e.exc, msg |-> e.msg]),
              !.exit = 1,
              !.pc = "failed"]

\* The statements after a stage that returned: its echoes, and the move to
\* the next stage.
proceed(c, events, lines, pc) ==
    [c EXCEPT !.trace = @ \o events,
              !.echo = @ \o [i \in DOMAIN lines |->
                                Line(lines[i][1], lines[i][2], Len(c.trace) + Len(events))],
              !.pc = pc]

\* The file the external executable is asked to write (-o).
ExeOutput ==
    [cmd \in Commands |->
        CASE cmd = "fit" -> ModelIn
          [] cmd = "forecast" -> ForecastIn
          [] cmd = "diagnostics" -> "diagnostics/diagnostics.json"
          [] cmd = "simulate" -> SimulationIn]

\* A diagnostics file as the external executable writes it.
ExampleDiagnosticsFile ==
    JsonFile(TObj(<<
        <<"ljung_box_test",
          TObj(<< <<"lags", TArr(<<TNum(1)>>)>>, <<"statistics", TArr(<<TNum(2)>>)>>,
                  <<"pvalues", TArr(<<TNum(1)>>)>> >>)>>,
        <<"jarque_bera_test",
          TObj(<< <<"statistic", TNum(3)>>, <<"pvalue", TNum(1)>> >>)>> >>))

\* What the external executable may leave at its output path when it ends
\* with status 0: a file of the agreed format, a file the loader rejects, or
\* nothing (NoFile: the path is left as it was).
ExeWrites ==
    [cmd \in Commands |->
        CASE cmd = "fit" -> {ExampleModelFile, JsonFile(TObj(<<>>)), NoFile}
          [] cmd = "forecast" ->
                {ExampleForecastFile,
                 CsvFile(<<"step", "mean">>, <<Row([step |-> 1, mean |-> 0])>>), NoFile}
          [] cmd = "diagnostics" -> {ExampleDiagnosticsFile, JsonFile(TBad), NoFile}
          [] cmd = "simulate" ->
                {ExamplePanelFile,
                 CsvFile(<<"path", "observation">>, <<Row([path |-> 0, observation |-> 0])>>),
                 NoFile}]

\* The input files click requires to exist (click.Path(exists=True)).
RequiredInputs ==
    [cmd \in Commands |->
        CASE cmd = "fit" -> {DataIn}
          [] cmd = "forecast" -> {ModelIn}
          [] cmd = "diagnostics" -> {ModelIn, DataIn}
          [] cmd = "simulate" -> {ModelIn}]

\* The default --plot-dir of fit and --output of diagnostics.
FitPlotDir == <<"output">>
DiagnosticsDir == <<"diagnostics">>

ReportPath ==
    [cmd \in Commands |->
        MkPath(<<"reports">>,
               (IF cmd = "simulate" THEN "simulation" ELSE cmd) \o "_report",
               <<".", "m", "d">>)]

PlotFn ==
    [cmd \in Commands |->
        CASE cmd = "fit" -> "plot_fit_diagnostics"
          [] cmd = "forecast" -> "plot_forecast"
          [] cmd = "diagnostics" -> "plot_residual_diagnostics"
          [] cmd = "simulate" -> "plot_simulation_paths"]

ReportFn ==
    [cmd \in Commands |->
        CASE cmd = "fit" -> "generate_fit_report"
          [] cmd = "forecast" -> "generate_forecast_report"
          [] cmd = "diagnostics" -> "generate_diagnostics_report"
          [] cmd = "simulate" -> "generate_simulation_report"]

\* The path the plot generator of the command writes.
PlotTarget(cmd, plot) ==
    CASE cmd = "fit" -> MkPath(FitPlotDir, "fit_diagnostics", <<".", "p", "n", "g">>)
      [] cmd = "forecast" -> IF plot = JNull THEN ForecastDefault ELSE plot
      [] cmd = "diagnostics" ->
            MkPath(DiagnosticsDir, "residual_diagnostics", <<".", "p", "n", "g">>)
      [] cmd = "simulate" -> IF plot = JNull THEN SimulationDefault ELSE plot

\* The loaders the plot generator of the command calls, with their outcomes.
PlotLoaders(cmd, files) ==
    CASE cmd = "fit" -> <<>>
      [] cmd = "forecast" ->
            <<Stage("load_model_json", load_model_json(files, ModelIn)),
              Stage("load_forecast_csv", load_forecast_csv(files, ForecastIn))>>
      [] cmd = "diagnostics" ->
            <<Stage("load_model_json", load_model_json(files, ModelIn)),
              Stage("load_csv_data", load_csv_data(files, DataIn))>>
      [] cmd = "simulate" ->
            <<Stage("parse_simulation_csv", parse_simulation_csv(files, SimulationIn))>>

\* The plot generator of the command, called as the command calls it.
PlotEffect(c, files, directories) ==
    CASE c.cmd = "fit" ->
            plot_fit_diagnostics(files, directories, c.data, c.model, FitPlotDir)
      [] c.cmd = "forecast" ->
            plot_forecast(files, directories, ModelIn, ForecastIn, c.plot)
      [] c.cmd = "diagnostics" ->
            plot_residual_diagnostics(files, directories, ModelIn, DataIn,
                IF PathExists(files, ExeOutput[c.cmd]) THEN ExeOutput[c.cmd] ELSE JNull,
                DiagnosticsDir)
      [] c.cmd = "simulate" ->
            plot_simulation_paths(files, directories, SimulationIn, 10, c.plot)

\* The loaders the command calls between the plot and the report.
ReportLoaders(cmd, files) ==
    CASE cmd = "fit" -> <<>>
      [] cmd = "forecast" ->
            <<Stage("load_model_json", load_model_json(files, ModelIn)),
              Stage("load_forecast_csv", load_forecast_csv(files, ForecastIn))>>
      [] cmd = "diagnostics" ->
            <<Stage("load_model_json", load_model_json(files, ModelIn)),
              Stage("load_csv_data", load_csv_data(files, DataIn))>>
            \o IF PathExists(files, ExeOutput[cmd])
               THEN <<Stage("load_diagnostics_json",
                            load_diagnostics_json(files, ExeOutput[cmd]))>>
               ELSE <<>>
      [] cmd = "simulate" ->
            <<Stage("load_model_json", load_model_json(files, ModelIn)),
              Stage("parse_simulation_csv", parse_simulation_csv(files, SimulationIn))>>

\* The report generator of the command, called with the values loaded and
\* the path the plot generator returned.
ReportEffect(c, files, directories, loaded, now) ==
    CASE c.cmd = "fit" ->
            generate_fit_report(files, directories, c.data, c.model, c.plot_path,
                                ReportPath[c.cmd], FALSE, now)
      [] c.cmd = "forecast" ->
            generate_forecast_report(files, directories, loaded[1].out.val,
                                          loaded[2].out.val, c.plot_path,
                                          ReportPath[c.cmd], FALSE, now)
      [] c.cmd = "diagnostics" ->
            generate_diagnostics_report(files, directories, loaded[1].out.val,
                                        loaded[2].out.val,
                                        IF Len(loaded) = 3 THEN loaded[3].out.val ELSE JNull,
                                        c.plot_path, ReportPath[c.cmd], FALSE, now)
      [] c.cmd = "simulate" ->
            generate_simulation_report(files, directories, loaded[1].out.val,
                                       loaded[2].out.val.df, c.plot_path,
                                       ReportPath[c.cmd], 2, 2, FALSE, now)

\* Variant: the report is written whether or not --markdown was given.
AfterPlot_always_report(c) == "report"

\* if markdown: ... after the plot generator has returned.
AfterPlot(c) == IF c.markdown THEN "report" ELSE "finish"

\* ---------------------------------------------------------------------------
\* Runs of the commands
\* ---------------------------------------------------------------------------

DiagnosticsOut == ExeOutput["diagnostics"]

\* The values of --plot: not given, or a path under PlotDir.
PlotOptions ==
    [cmd \in Commands |->
        CASE cmd = "forecast" -> {JNull, MkPath(PlotDir, "forecast", <<".", "p", "n", "g">>)}
          [] cmd = "simulate" -> {JNull, MkPath(PlotDir, "simulation", <<".", "p", "n", "g">>)}
          [] OTHER -> {JNull}]

CliDisk ==
    {EnvExe, ModelIn, DataIn, ForecastIn, SimulationIn, DiagnosticsOut}
    \cup {PathStr(PlotTarget(cmd, plot)) : cmd \in Commands, plot \in UNION {PlotOptions[c] : c \in Commands}}
    \cup {PathStr(ReportPath[cmd]) : cmd \in Commands}

\* The working directory before a run: the executable is installed, the data
\* file is there, the model file is there, broken or missing, and no output
\* has been produced yet.
InitCli ==
    /\ env \in {NoEnv, [NoEnv EXCEPT !.AG_EXECUTABLE = <<EnvExe>>]}
    /\ \E model_file \in {ExampleModelFile, JsonFile(TObj(<<>>)), NoFile} :
          fs = [p \in CliDisk |->
                  CASE p = EnvExe -> ExeFile
                    [] p = ModelIn -> model_file
                    [] p = DataIn -> ExampleSeriesFile
                    [] OTHER -> NoFile]
    /\ dirs \in {{}, Ancestors(PlotDir)}
    /\ cli = NoCli
    /\ model_json = JNull
    /\ diagnostics_json = JNull
    /\ call = NoLoaderCall
    /\ result = NoResult
    /\ fmt = NoCall
    /\ report = NoReport

\* The callback of the command group, run before every command: the lines it
\* writes to standard error.
cli_callback(environ, files) ==
    IF find_ag_executable(environ, files) = JNull
    THEN <<[prefix |-> "Warning:", exc |-> "none",
            msg |-> <<"ag", "executable", "not", "found">>]>>
    ELSE <<>>

\* The command is entered: the group callback looks for the executable and
\* warns when there is none, click checks the paths that must exist, the
\* command prints its banner, and diagnostics creates its output directory.
Invoke ==
    /\ cli.pc = "idle"
    /\ \E cmd \in Commands, markdown \in BOOLEAN :
        \E plot \in PlotOptions[cmd] :
          LET started == [NoCli EXCEPT !.cmd = cmd, !.markdown = markdown, !.plot = plot,
                                       !.err = cli_callback(env, fs)] IN
          IF \E p \in RequiredInputs[cmd] : ~PathExists(fs, p)
          THEN /\ cli' = [started EXCEPT
                            !.err = @ \o
                                    <<[prefix |-> "Error:", exc |-> "UsageError",
                                       msg |-> <<"Invalid", "value", ":", "Path",
                                                 "does", "not", "exist">>]>>,
                            !.exit = 2,
                            !.pc = "usage"]
               /\ dirs' = dirs
          ELSE /\ cli' = proceed(started, <<>>, <<<<FALSE, "Running " \o cmd \o "...">>>>, "exec")
               /\ dirs' = IF cmd = "diagnostics" THEN mkdir_parents(dirs, DiagnosticsDir)
                          ELSE dirs
    /\ UNCHANGED <<model_json, fmt, report, fs, call, result, diagnostics_json, env>>

\* result = run_ag_command(args); click.echo(result.stdout).  The external
\* executable ends with some status and, when it ends with 0, may have
\* written its output file.
Exec ==
    /\ cli.pc = "exec"
    /\ \E returncode \in ReturnCodes, written \in ExeWrites[cli.cmd] :
        \E out \in {run_ag_command(env, fs, TRUE, returncode)} :
          LET events == Calls(<<Stage("run_ag_command", out)>>) IN
          IF out.exc # "none"
          THEN /\ written = NoFile
               /\ cli' = except_handler(cli, events, out)
               /\ fs' = fs
          ELSE /\ cli' = proceed(cli, events,
                                 <<<<FALSE, "stdout">>, <<FALSE, "Generating plot...">>>>,
                                 IF cli.cmd = "fit" THEN "load" ELSE "plot")
               /\ fs' = IF written = NoFile THEN fs
                        ELSE [fs EXCEPT ![ExeOutput[cli.cmd]] = written]
    /\ UNCHANGED <<model_json, fmt, report, call, result, dirs, diagnostics_json, env>>

\* fit: data = load_csv_data(Path(data_path)); model = load_model_json(Path(output_path))
Load ==
    /\ cli.pc = "load"
    /\ \E stages \in {<<Stage("load_csv_data", load_csv_data(fs, DataIn)),
                        Stage("load_model_json", load_model_json(fs, ModelIn))>>} :
          cli' = IF Outcome(stages).exc # "none"
                 THEN except_handler(cli, Calls(stages), Outcome(stages))
                 ELSE [proceed(cli, Calls(stages), <<>>, "plot") EXCEPT
                          !.data = stages[1].out.val, !.model = stages[2].out.val]
    /\ UNCHANGED <<model_json, fmt, report, fs, call, result, dirs, diagnostics_json, env>>

\* The plot generator of the command is called; its path is echoed.
Plot ==
    /\ cli.pc = "plot"
    /\ \E e \in {PlotEffect(cli, fs, dirs)} :
          LET fn == PlotFn[cli.cmd]
              target == PlotTarget(cli.cmd, cli.plot)
              events == <<Ev("call", fn, JNull)>> \o Calls(PlotLoaders(cli.cmd, fs))
                          \o <<Ev(IF e.out.exc = "none" THEN "return" ELSE "raise",
                                  fn, e.out.val)>>
          IN /\ cli' = IF e.out.exc # "none" THEN except_handler(cli, events, e.out)
                       ELSE [proceed(cli, events,
                                     <<<<TRUE, "Saved plot to: " \o PathStr(target)>>>>
                                        \o IF cli.markdown
                                           THEN <<<<FALSE, "Generating Markdown report...">>>>
                                           ELSE <<>>,
                                     AfterPlot(cli))
                             EXCEPT !.plot_path = target]
             /\ fs' = e.files
             /\ dirs' = e.dirs
    /\ env' = IF cli.cmd = "diagnostics"
              THEN [env EXCEPT !.rng = residual_rng(env.rng, fs, ModelIn, DataIn)]
              ELSE env
    /\ UNCHANGED <<model_json, fmt, report, call, result, diagnostics_json>>

\* The files are loaded (again) where the command does so, and the report
\* generator of the command is called with the path the plot generator
\* returned.
Report ==
    /\ cli.pc = "report"
    /\ \E now \in Clock :
        \E loaded \in {ReportLoaders(cli.cmd, fs)} :
          IF loaded # <<>> /\ Outcome(loaded).exc # "none"
          THEN /\ cli' = except_handler(cli, Calls(loaded), Outcome(loaded))
               /\ fs' = fs
               /\ dirs' = dirs
          ELSE \E e \in {ReportEffect(cli, fs, dirs, loaded, now)} :
                 LET fn == ReportFn[cli.cmd]
                     events == Calls(loaded)
                                \o <<Ev("call", fn, JPath(PathStr(cli.plot_path))),
                                     Ev(IF e.out.exc = "none" THEN "return" ELSE "raise",
                                        fn, e.out.val)>>
                 IN /\ cli' = IF e.out.exc # "none" THEN except_handler(cli, events, e.out)
                              ELSE proceed(cli, events,
                                           <<<<TRUE, "Saved Markdown report to: "
                                                        \o PathStr(ReportPath[cli.cmd])>>>>,
                                           "finish")
                    /\ fs' = e.files
                    /\ dirs' = e.dirs
    /\ UNCHANGED <<model_json, fmt, report, call, result, diagnostics_json, env>>

\* The last statement of the try block: the closing success line.  The
\* command returns and the process ends with status 0.
Finish ==
    /\ cli.pc = "finish"
    /\ cli' = proceed(cli, <<>>, <<<<TRUE, "Saved to: " \o ExeOutput[cli.cmd]>>>>, "done")
    /\ UNCHANGED <<model_json, fmt, report, fs, call, result, dirs, diagnostics_json, env>>

NextCli == Invoke \/ Exec \/ Load \/ Plot \/ Report \/ Finish

SpecCli == InitCli /\ [][NextCli]_vars

(***************************************************************************)
(* Claims about the commands.                                              *)
(***************************************************************************)

\* The external executable or a loader raised during the run.
StageFailed ==
    \E i \in DOMAIN cli.trace :
        /\ cli.trace[i].ev = "raise"
        /\ cli.trace[i].fn \in {"run_ag_command"} \cup LoaderNames

\* The position of the first exception in the record of calls.
FirstRaise ==
    CHOOSE i \in DOMAIN cli.trace :
        /\ cli.trace[i].ev = "raise"
        /\ \A j \in 1..(i - 1) : cli.trace[j].ev # "raise"

\* Nothing is called after the first exception, an "Error:" line is on
\* standard error, and the process has ended with status 1.
StopsTheRun ==
    /\ \A j \in DOMAIN cli.trace : j > FirstRaise => cli.trace[j].ev # "call"
    /\ cli.pc = "failed"
    /\ \E i \in DOMAIN cli.err : cli.err[i].prefix = "Error:"
    /\ cli.exit = 1

\* C17 as stated: when the external executable exits non-zero or a loader
\* raises, nothing is called afterwards, no success line is printed in the
\* run, an "Error:" message is emitted and the exit status is 1.
C17_Original ==
    StageFailed =>
        /\ StopsTheRun
        /\ \A i \in DOMAIN cli.echo : ~cli.echo[i].mark

\* C17 amended: when the external executable exits non-zero or a loader
\* raises, nothing is called afterwards, no success line is printed after the
\* failure (the success lines of stages that had already returned stay
\* printed), an "Error:" message is emitted and the exit status is 1.
C17_Amended ==
    StageFailed =>
        /\ StopsTheRun
        /\ \A i \in DOMAIN cli.echo : cli.echo[i].mark => cli.echo[i].at < FirstRaise
        /\ \A i \in DOMAIN cli.echo :
              cli.echo[i].mark =>
                 \E j \in 1..cli.echo[i].at :
                    cli.trace[j].ev = "return" /\ cli.trace[j].fn \in Range(PlotFn)

\* A diagnostics run in which the plot was saved and announced, and then the
\* loader rejected the diagnostics file.
C17_Witness ==
    /\ cli.cmd = "diagnostics"
    /\ cli.pc = "failed"
    /\ StageFailed
    /\ cli.trace[FirstRaise].fn = "load_diagnostics_json"
    /\ \E i \in DOMAIN cli.echo : cli.echo[i].mark
    /\ cli.exit = 1

\* Every call other than the executable's happens after the executable has
\* returned.
AfterExecutable ==
    \A i \in DOMAIN cli.trace :
        cli.trace[i].fn # "run_ag_command" =>
            \E j \in 1..(i - 1) : cli.trace[j] = Ev("return", "run_ag_command", JNull)

\* The report generator is called only with --markdown, after the plot
\* generator has returned, and with the path the plot generator returned.
ReportAfterPlot ==
    \A i \in DOMAIN cli.trace :
        (cli.trace[i].ev = "call" /\ cli.trace[i].fn \in Range(ReportFn)) =>
            /\ cli.markdown
            /\ \E j \in 1..(i - 1) :
                  /\ cli.trace[j].ev = "return"
                  /\ cli.trace[j].fn = PlotFn[cli.cmd]
                  /\ cli.trace[j].val = cli.trace[i].val
            /\ \A j \in DOMAIN cli.trace :
                  j > i => cli.trace[j].fn = cli.trace[i].fn

\* C18 as stated: executable, then loaders, then plot generator, then report
\* generator: no loader is called once the plot generator has returned.
C18_Original ==
    /\ AfterExecutable
    /\ ReportAfterPlot
    /\ \A i, j \in DOMAIN cli.trace :
          (i < j /\ cli.trace[i].ev = "return" /\ cli.trace[i].fn \in Range(PlotFn))
             => cli.trace[j].fn \notin LoaderNames

\* C18 amended: the executable comes first and every other call follows its
\* successful return; the plot generator is called once; the report generator
\* comes last, only with --markdown, after the plot generator has returned
\* and with the path it returned.  Loaders are called after the executable
\* and before the report generator: by fit before the plot generator, by the
\* other commands inside the plot generator and again between the plot and
\* the report.
C18_Amended ==
    /\ AfterExecutable
    /\ ReportAfterPlot
    /\ Cardinality({i \in DOMAIN cli.trace :
                        cli.trace[i].ev = "call" /\ cli.trace[i].fn \in Range(PlotFn)}) <= 1
    /\ \A i \in DOMAIN cli.trace :
          (cli.trace[i].ev = "call" /\ cli.trace[i].fn \in LoaderNames) =>
             \E j \in 1..(i - 1) : cli.trace[j].ev = "call" /\
                IF cli.cmd = "fit" THEN cli.trace[j].fn = "run_ag_command"
                ELSE cli.trace[j].fn = PlotFn[cli.cmd]
    /\ cli.cmd = "fit" =>
          \A i, j \in DOMAIN cli.trace :
             (i < j /\ cli.trace[i].fn = PlotFn["fit"]) => cli.trace[j].fn \notin LoaderNames

\* A finished run with --markdown of a command that loads its files again
\* after the plot generator has returned.
C18_Witness ==
    /\ cli.pc = "done"
    /\ cli.markdown
    /\ cli.cmd = "forecast"
    /\ \E i, j, n \in DOMAIN cli.trace :
          /\ i < j /\ j < n
          /\ cli.trace[i] = Ev("return", "plot_forecast", JPath(PathStr(cli.plot_path)))
          /\ cli.trace[j] = Ev("call", "load_forecast_csv", JNull)
          /\ cli.trace[n] = Ev("call", "generate_forecast_report", JPath(PathStr(cli.plot_path)))

\* ---------------------------------------------------------------------------
\* Reports generated again
\* ---------------------------------------------------------------------------

MaxNesting == 1    \* a report embeds reports at most this deep

\* The series 1, ..., n as a table.
CountingFrame(n) ==
    DataFrame(SeriesColumns, [i \in 1..n |-> [c \in Range(SeriesColumns) |-> i]])

\* The entities each generator is given besides the model document.
AgainEntities ==
    [fn \in ReportGenerators |->
        CASE fn = "generate_fit_report" -> {CountingFrame(1), CountingFrame(2)}
          [] fn = "generate_forecast_report" -> {ExampleForecast}
          [] fn = "generate_diagnostics_report" -> {CountingFrame(2)}
          [] fn = "generate_simulation_report" -> {ExamplePanel}]

\* The plot path a report is given: the plot, or the report's own path.
AgainPlotPaths == {OutPlotPath, OutReportPath}

\* The generator fn called on the entities.
GenerateAgain(fn, files, directories, data, plot_path, use_data_uri, now) ==
    CASE fn = "generate_fit_report" ->
            generate_fit_report(files, directories, data, ExampleModel, plot_path,
                                OutReportPath, use_data_uri, now)
      [] fn = "generate_forecast_report" ->
            generate_forecast_report(files, directories, ExampleModel, data, plot_path,
                                     OutReportPath, use_data_uri, now)
      [] fn = "generate_diagnostics_report" ->
            generate_diagnostics_report(files, directories, ExampleModel, data,
                                        ExampleDiagnostics, plot_path, OutReportPath,
                                        use_data_uri, now)
      [] fn = "generate_simulation_report" ->
            generate_simulation_report(files, directories, ExampleModel, data, plot_path,
                                       OutReportPath, 2, 2, use_data_uri, now)

\* No report generator has run yet, and no plot generator.
NoReportCall == [fn |-> "", path |-> "", nesting |-> 0, plot |-> NoResult]

InitAgain ==
    /\ model_json = ExampleModel
    /\ diagnostics_json = ExampleDiagnostics
    /\ fs \in [{PathStr(OutPlotPath), PathStr(OutReportPath), SimulationIn} ->
                {NoFile, ImageFile(PngBytes), OldReport, ExamplePanelFile}]
    /\ fs[SimulationIn] = ExamplePanelFile
    /\ fs[PathStr(OutPlotPath)] \in {NoFile, ImageFile(PngBytes)}
    /\ fs[PathStr(OutReportPath)] \in {NoFile, OldReport}
    /\ dirs \in {{}, OutDirs}
    /\ ConsistentDisk(fs, dirs)
    /\ call = NoReportCall
    /\ result = NoResult
    /\ fmt = NoCall
    /\ report = NoReport
    /\ env = NoEnv
    /\ cli = NoCli

\* The report generator fn runs.  The call records the file found at the
\* plot path and, when the run before was a successful run on the same
\* entities, paths and flag that found the same file at the plot path where
\* the flag is set (`again`), the clock reading of that run.  `nesting`
\* counts how deep the report at the output path embeds earlier reports: a
\* report is embedded in the report that replaces it only when it was there
\* from the start or the same call is repeated, and MaxNesting deep at most.
\* The report's own path is given as the plot path only where the file at
\* the plot path is read, that is with the embed flag set.
Again(fn) ==
    \E data \in AgainEntities[fn], plot_path \in AgainPlotPaths,
       use_data_uri \in BOOLEAN, now \in Clock :
        LET reads_report == use_data_uri /\ plot_path = OutReportPath
                               /\ FileExists(fs, OutReportPath)
            repeated == /\ call.fn = fn
                        /\ result.exc = "none"
                        /\ call.data = data
                        /\ call.plot_path = plot_path
                        /\ call.use_data_uri = use_data_uri
            again == repeated /\ (use_data_uri => call.found = fs[PathStr(plot_path)])
        IN
        /\ reads_report => (call.nesting < MaxNesting /\ (call.fn = "" \/ repeated))
        /\ plot_path = OutReportPath => use_data_uri
        /\ \E e \in {GenerateAgain(fn, fs, dirs, data, plot_path, use_data_uri, now)} :
           /\ call' = [fn |-> fn, path |-> PathStr(OutReportPath),
                       data |-> data, plot_path |-> plot_path,
                       output_path |-> OutReportPath, use_data_uri |-> use_data_uri,
                       now |-> now, existed |-> FileExists(fs, OutReportPath),
                       found |-> fs[PathStr(plot_path)],
                       again |-> again,
                       earlier |-> IF again THEN call.now ELSE 0,
                       nesting |-> IF reads_report THEN call.nesting + 1 ELSE 0,
                       plot |-> NoResult]
           /\ result' = e.out
           /\ fs' = e.files
           /\ dirs' = e.dirs
           /\ UNCHANGED <<model_json, fmt, report, diagnostics_json, env, cli>>

FitReportAgain == Again("generate_fit_report")
ForecastReportAgain == Again("generate_forecast_report")
DiagnosticsReportAgain == Again("generate_diagnostics_report")
SimulationReportAgain == Again("generate_simulation_report")

\* Between two runs of a report generator the simulation plot is drawn at
\* the plot path: plot_simulation_paths(simulation_csv, n_paths_to_plot,
\* output_path).  It makes no directory and raises when the directory of the
\* plot path is missing; call.plot keeps its outcome until the next report.
SimulationPlotAgain ==
    \E n_paths_to_plot \in {1, 2} :
        \E e \in {plot_simulation_paths(fs, dirs, SimulationIn, n_paths_to_plot,
                                         OutPlotPath)} :
           /\ call' = [call EXCEPT !.plot = e.out]
           /\ fs' = e.files
           /\ dirs' = e.dirs
           /\ UNCHANGED <<model_json, fmt, report, result, diagnostics_json, env, cli>>

NextAgain ==
    \/ FitReportAgain
    \/ ForecastReportAgain
    \/ DiagnosticsReportAgain
    \/ SimulationReportAgain
    \/ SimulationPlotAgain

SpecAgain == InitAgain /\ [][NextAgain]_vars

\* The text with its timestamp fields blanked.
Untimed(text) == [text EXCEPT !.generated = 0]

\* A run of a report generator that follows a successful run of the same
\* generator on the same entities, plot path, output path and embed flag,
\* with or without a plot call in between.
SameInputsTwice ==
    /\ call.fn \in ReportGenerators
    /\ call'.fn = call.fn
    /\ call'.plot = NoResult
    /\ result.exc = "none"
    /\ call'.output_path = call.output_path
    /\ call'.plot_path = call.plot_path
    /\ call'.use_data_uri = call.use_data_uri
    /\ call'.data = call.data

\* The second file equals the first except for the timestamp, equals it
\* entirely when the clock reads the same, and carries the second reading.
SameReportTwice ==
    /\ result'.exc = "none"
    /\ Untimed(fs'[call'.path].text) = Untimed(fs[call.path].text)
    /\ call'.now = call.now => fs'[call'.path] = fs[call.path]
    /\ fs'[call'.path].text.generated = call'.now

\* C21 as stated: when a report generator runs twice on the same entities,
\* plot path, output path and embed flag, the second file equals the first
\* except for the timestamp, and equals it entirely when the clock reads
\* the same.
C21_Original == [][SameInputsTwice => SameReportTwice]_vars

\* C21: when a report generator runs twice on the same entities, plot path,
\* output path and embed flag and, where the embed flag is set, finds the
\* same file or the same absence of a file at the plot path both times, the
\* second run succeeds and its file equals the first except for the
\* timestamp, and equals it entirely when the clock reads the same; the
\* report and the directories the first run left on the disk do not show.
C21_Amended ==
    [][(SameInputsTwice /\ (call'.use_data_uri => call'.found = call.found))
          => SameReportTwice]_vars

\* A second run at clock reading 2 after a run at reading 1, the simulation
\* plot drawn at the plot path before the two of them and embedded by both:
\* the file differs from the one it replaced in the timestamp alone.
C21_Witness ==
    /\ call.fn \in ReportGenerators
    /\ result.exc = "none"
    /\ call.again
    /\ call.existed
    /\ call.use_data_uri
    /\ call.found.k = "image"
    /\ "drawn" \in DOMAIN call.found
    /\ call.earlier = 1
    /\ call.now = 2
    /\ fs[call.path].text.generated = 2
    /\ fs[call.path].text.title = TitleOf[call.fn]

\* ---------------------------------------------------------------------------
\* The forecast report over forecast tables
\* ---------------------------------------------------------------------------

\* Forecast tables of 0..MaxHorizon rows, in any order of steps.
ForecastTables == {DataFrame(ForecastColumns, rows) : rows \in SeqUpTo(ForecastRows, MaxHorizon)}

InitForecast ==
    /\ model_json = ExampleModel
    /\ diagnostics_json = JNull
    /\ fs \in [{PathStr(OutPlotPath), PathStr(OutReportPath)} -> {NoFile, ImageFile(PngBytes)}]
    /\ fs[PathStr(OutReportPath)] = NoFile
    /\ dirs = Ancestors(OutPlotPath.parent)
    /\ \E forecast_df \in ForecastTables :
          call = [fn |-> "none", path |-> PathStr(OutReportPath),
                  data |-> forecast_df, plot_path |-> OutPlotPath,
                  output_path |-> OutReportPath, use_data_uri |-> FALSE,
                  now |-> 0, existed |-> FALSE]
    /\ result = NoResult
    /\ fmt = NoCall
    /\ report = NoReport
    /\ env = NoEnv
    /\ cli = NoCli

\* The caller holds one forecast table (call.data) and writes its report,
\* possibly several times.
WriteForecastReport ==
    \E use_data_uri \in BOOLEAN, now \in Clock :
        \E e \in {generate_forecast_report(fs, dirs, model_json, call.data,
                        OutPlotPath, OutReportPath, use_data_uri, now)} :
           /\ call' = [fn |-> "generate_forecast_report",
                       path |-> PathStr(OutReportPath),
                       data |-> call.data, plot_path |-> OutPlotPath,
                       output_path |-> OutReportPath, use_data_uri |-> use_data_uri,
                       now |-> now, existed |-> FileExists(fs, OutReportPath)]
           /\ result' = e.out
           /\ fs' = e.files
           /\ dirs' = e.dirs
           /\ UNCHANGED <<model_json, fmt, report, diagnostics_json, env, cli>>

NextForecast == WriteForecastReport

SpecForecast == InitForecast /\ [][NextForecast]_vars

\* A forecast report has been written from the table call.data.
ForecastWritten == call.fn = "generate_forecast_report" /\ result.exc = "none"

\* The two rows of the end-to-end scenario: (1, 0.05, 0.01, 0.1) and
\* (2, 0.04, 0.012, 0.11).
ScenarioRows == <<ForecastRow(1, 50000, 100000), ForecastRow(2, 40000, 110000)>>

\* A number of hundred-millionths to the nearest millionth.  The bounds
\* mean -+ 1.96 std_dev of cells in millionths never lie halfway between two
\* millionths.
Nearest(v) == (v + 50) \div 100

\* C22: the detailed table has one line per row of the forecast table, in
\* input order, showing step, mean, std_dev, mean - 1.96 std_dev and
\* mean + 1.96 std_dev to six decimal places; the scenario's two rows give
\* the two lines quoted.
C22_DetailedTable ==
    ForecastWritten =>
        LET rows == call.data.rows
            table == fs[call.path].text.table
        IN /\ Len(table) = Len(rows)
           /\ \A i \in DOMAIN rows :
                table[i] = "| " \o ToString(rows[i].step)
                           \o " | " \o Decimal(rows[i].mean, 6)
                           \o " | " \o Decimal(rows[i].std_dev, 6)
                           \o " | " \o Decimal(Nearest(100 * rows[i].mean - 196 * rows[i].std_dev), 6)
                           \o " | " \o Decimal(Nearest(100 * rows[i].mean + 196 * rows[i].std_dev), 6)
                           \o " |"
           /\ rows = ScenarioRows =>
                table = <<"| 1 | 0.050000 | 0.100000 | -0.146000 | 0.246000 |",
                          "| 2 | 0.040000 | 0.110000 | -0.175600 | 0.255600 |">>

C22_Witness ==
    /\ ForecastWritten
    /\ call.data.rows = ScenarioRows
    /\ fs[call.path].text.table[2] = "| 2 | 0.040000 | 0.110000 | -0.175600 | 0.255600 |"

StableBullet == "- **Trend:** The forecast exhibits a relatively stable trajectory with minimal drift."

\* The first and the last mean of the forecast table the report was written from.
FirstMean == call.data.rows[1]["mean"]
LastMean == call.data.rows[Len(call.data.rows)]["mean"]

\* C29: a forecast of two or more rows whose last mean equals its first mean
\* is reported as stable, also when the first mean is 0.
C29_EqualEndsAreStable ==
    (ForecastWritten /\ Len(call.data.rows) >= 2 /\ LastMean = FirstMean)
        => fs[call.path].text.trend = <<StableBullet>>

\* ---------------------------------------------------------------------------
\* The simulation plot and the simulation report over panels
\* ---------------------------------------------------------------------------

MaxPanelRows == 3

\* A row of a panel; the return is told by the path and the observation.
PanelRow(path, observation) ==
    [c \in Range(SimColumns) |->
        CASE c = "path" -> path
          [] c = "observation" -> observation
          [] c = "return" -> 2 * path + observation + 1
          [] OTHER -> 0]

PanelRows == {PanelRow(path, observation) : path \in 0..2, observation \in 0..1}

\* Panels of up to MaxPanelRows rows, no (path, observation) pair twice, in
\* any order of rows.
Panels ==
    {rows \in SeqUpTo(PanelRows, MaxPanelRows) :
        \A i, j \in DOMAIN rows : rows[i] = rows[j] => i = j}

SimPlotPath == MkPath(<<"output">>, "simulation", <<".", "p", "n", "g">>)
SimReportPath == MkPath(<<"reports">>, "simulation_report", <<".", "m", "d">>)

InitSim ==
    /\ model_json = ExampleModel
    /\ diagnostics_json = JNull
    /\ \E rows \in Panels :
          fs = [p \in {SimulationIn, PathStr(SimPlotPath), PathStr(SimReportPath)} |->
                  IF p = SimulationIn
                  THEN CsvFile(SimColumns, [i \in DOMAIN rows |-> Row(rows[i])])
                  ELSE NoFile]
    /\ dirs = {"output"}
    /\ call = NoLoaderCall
    /\ result = NoResult
    /\ fmt = NoCall
    /\ report = NoReport
    /\ env = NoEnv
    /\ cli = NoCli

PlotPanel ==
    \E n_paths_to_plot \in {1, 2, 10} :
        \E e \in {plot_simulation_paths(fs, dirs, SimulationIn, n_paths_to_plot, SimPlotPath)} :
            /\ call' = [fn |-> "plot_simulation_paths", path |-> PathStr(SimPlotPath),
                        n_paths_to_plot |-> n_paths_to_plot]
            /\ result' = e.out
            /\ fs' = e.files
            /\ dirs' = e.dirs
            /\ UNCHANGED <<model_json, fmt, report, diagnostics_json, env, cli>>

\* The panel is parsed and its report is written, as the simulate command
\* does after the plot.
ReportPanel ==
    \E now \in Clock :
        LET parsed == parse_simulation_csv(fs, SimulationIn) IN
        \E e \in {IF parsed.exc # "none" THEN Failed(parsed, fs, dirs)
                  ELSE generate_simulation_report(fs, dirs, model_json, parsed.val.df,
                            SimPlotPath, SimReportPath, 2, 2, FALSE, now)} :
            /\ call' = [fn |-> "generate_simulation_report", path |-> PathStr(SimReportPath),
                        now |-> now]
            /\ result' = e.out
            /\ fs' = e.files
            /\ dirs' = e.dirs
            /\ UNCHANGED <<model_json, fmt, report, diagnostics_json, env, cli>>

NextSim ==
    \/ PlotPanel
    \/ ReportPanel

SpecSim == InitSim /\ [][NextSim]_vars

\* The panel on the disk, as parse_simulation_csv returns it.
ParsedPanel == parse_simulation_csv(fs, SimulationIn).val

\* The path identifiers present in the panel.
PresentPathIds == {ParsedPanel.df.rows[i]["path"] : i \in DOMAIN ParsedPanel.df.rows}

PanelPlotted == call.fn = "plot_simulation_paths" /\ result.exc = "none"

\* C23: the plot overlays min(n_paths_to_plot, n_paths) trajectories, each
\* the rows of a different path identifier present in the panel, whatever
\* value the identifiers start at; the histogram is built from the rows whose
\* observation is n_obs_per_path - 1.
C23_TrajectoriesOfPresentPaths ==
    PanelPlotted =>
        LET drawn == fs[call.path].drawn
            n == Min2(call.n_paths_to_plot, Cardinality(PresentPathIds))
            last == SelectSeq(ParsedPanel.df.rows,
                        LAMBDA r : r["observation"] = ParsedPanel.n_obs_per_path - 1)
        IN /\ Len(drawn.trajectories) = n
           /\ \E chosen \in SUBSET PresentPathIds :
                /\ Cardinality(chosen) = n
                /\ {drawn.trajectories[k] : k \in 1..n}
                      = {PathData(ParsedPanel.df, id) : id \in chosen}
           /\ drawn.terminal_values = [i \in DOMAIN last |-> last[i]["return"]]

\* The values of a sequence with their multiplicities.
Collection(values) ==
    [v \in Range(values) |-> Cardinality({i \in DOMAIN values : values[i] = v})]

\* Both the plot and the report of the panel on the disk have been written.
PlottedAndReported ==
    /\ FileExists(fs, SimPlotPath)
    /\ FileExists(fs, SimReportPath)

\* C24: for a panel accepted by parse_simulation_csv, the terminal values
\* summarised in the simulation report are the same collection of values as
\* the terminal values in the histogram of the simulation plot.
C24_SameTerminalValues ==
    PlottedAndReported =>
        Collection(fs[PathStr(SimReportPath)].text.simulation.terminal_values)
            = Collection(fs[PathStr(SimPlotPath)].drawn.terminal_values)

\* C25: a plot generator call changes nothing but its own output file and
\* the directories it creates: the process-wide state (the global
\* random-number generator included), the documents and the other files are
\* as they were before the call.
C25_Stateless ==
    [][call'.fn \in PlotGenerators =>
          /\ env' = env
          /\ model_json' = model_json
          /\ diagnostics_json' = diagnostics_json
          /\ \A p \in DOMAIN fs : p # call'.path => fs'[p] = fs[p]
      ]_vars

\* ---------------------------------------------------------------------------
\* The residual plot over changing inputs
\* ---------------------------------------------------------------------------

\* A model file with other orders than the example.
OtherModelFile ==
    JsonFile(TObj(<< <<"spec",
              TObj(<< <<"arima", TObj(<< <<"p", TNum(0)>>, <<"d", TNum(1)>>,
                                         <<"q", TNum(0)>> >>)>>,
                      <<"garch", TObj(<< <<"p", TNum(1)>>, <<"q", TNum(0)>> >>)>> >>)>>,
            <<"parameters", TObj(<<>>)>> >>))

ResidualModelFiles == {ExampleModelFile, OtherModelFile}

\* Data files of 0..MaxRows rows with values 1 or 2.
ResidualDataFiles ==
    {CsvFile(SeriesColumns, ls) :
        ls \in SeqUpTo({Row(RowWith(SeriesColumns, "value", v)) : v \in 1..2}, MaxRows)}

DiagnosticsIn == "diagnostics.json"
ResidualPlot == MkPath(PlotDir, "residual_diagnostics", <<".", "p", "n", "g">>)

\* What a run was given: the two input files and the diagnostics argument.
NoInputs == [model |-> NoFile, data |-> NoFile, diagnostics |-> JNull]

InitResid ==
    /\ model_json = JNull
    /\ diagnostics_json = JNull
    /\ \E model_file \in ResidualModelFiles, data_file \in ResidualDataFiles :
          fs = [p \in {ModelIn, DataIn, DiagnosticsIn, PathStr(ResidualPlot)} |->
                  CASE p = ModelIn -> model_file
                    [] p = DataIn -> data_file
                    [] p = DiagnosticsIn -> ExampleDiagnosticsFile
                    [] OTHER -> NoFile]
    /\ dirs = {}
    /\ call = [fn |-> "", path |-> "", drawn_from |-> NoInputs, before |-> NoInputs]
    /\ result = NoResult
    /\ fmt = NoCall
    /\ report = NoReport
    /\ env = NoEnv
    /\ cli = NoCli

\* One call of plot_residual_diagnostics.  call.drawn_from is what the image
\* now on the disk was drawn from, call.before what the image it replaced
\* was drawn from.
PlotResiduals ==
    \E diagnostics_path \in {JNull, JStr(DiagnosticsIn)} :
        \E e \in {plot_residual_diagnostics(fs, dirs, ModelIn, DataIn, diagnostics_path, PlotDir)} :
            /\ call' = [fn |-> "plot_residual_diagnostics", path |-> PathStr(ResidualPlot),
                        drawn_from |-> IF e.out.exc = "none"
                                       THEN [model |-> fs[ModelIn], data |-> fs[DataIn],
                                             diagnostics |-> diagnostics_path]
                                       ELSE call.drawn_from,
                        before |-> call.drawn_from]
            /\ result' = e.out
            /\ fs' = e.files
            /\ dirs' = e.dirs
            /\ env' = [env EXCEPT !.rng = residual_rng(env.rng, fs, ModelIn, DataIn)]
            /\ UNCHANGED <<model_json, fmt, report, diagnostics_json, cli>>

\* Between two runs the model file and the data file are replaced.
ReplaceInputs ==
    \E model_file \in ResidualModelFiles, data_file \in ResidualDataFiles :
        /\ fs' = [fs EXCEPT ![ModelIn] = model_file, ![DataIn] = data_file]
        /\ UNCHANGED <<model_json, fmt, report, call, result, dirs, diagnostics_json, env, cli>>

NextResid ==
    \/ PlotResiduals
    \/ ReplaceInputs

SpecResid == InitResid /\ [][NextResid]_vars

\* C26: the residual series of a run is the one of the run before it whenever
\* the two data files have the same number of rows, whatever the data
\* values, the model document and the diagnostics argument are; it is the
\* series of seed 42 with one value per data row.
C26_ResidualsByRowCount ==
    [][(/\ call'.fn = "plot_residual_diagnostics"
        /\ result'.exc = "none"
        /\ call # call') =>
          /\ fs'[call'.path].drawn.residuals
                = [seed |-> 42, n |-> Len(call'.drawn_from.data.lines)]
          /\ (/\ call.drawn_from # NoInputs
              /\ Len(call.drawn_from.data.lines) = Len(call'.drawn_from.data.lines))
                => fs'[call'.path].drawn.residuals = fs[call.path].drawn.residuals
      ]_vars

\* A run after a run on other data values, another model and another
\* diagnostics argument, with as many data rows.
C26_Witness ==
    /\ call.fn = "plot_residual_diagnostics"
    /\ result.exc = "none"
    /\ call.before # NoInputs
    /\ call.before.data # call.drawn_from.data
    /\ call.before.model # call.drawn_from.model
    /\ call.before.diagnostics # call.drawn_from.diagnostics
    /\ Len(call.before.data.lines) = 2
    /\ Len(call.drawn_from.data.lines) = 2
    /\ fs[call.path].drawn.residuals = [seed |-> 42, n |-> 2]

\* ---------------------------------------------------------------------------
\* The fit report over series of several shapes
\* ---------------------------------------------------------------------------

ShapeFrames ==
    {DataFrame(SeriesColumns, [i \in DOMAIN values |-> [c \in Range(SeriesColumns) |-> values[i]]]) :
        values \in ShapeSeries}

InitShape ==
    /\ model_json \in {ExampleModel, MkObj(<< <<"spec", ExampleSpec>>, <<"parameters", EmptyObj>> >>)}
    /\ diagnostics_json = JNull
    /\ fs \in [{PathStr(FitPlotPath), PathStr(FitReportPath)} -> {NoFile, ImageFile(PngBytes)}]
    /\ fs[PathStr(FitReportPath)] = NoFile
    /\ dirs = {DirStr(FitPlotPath.parent)}
    /\ \E data \in ShapeFrames :
          call = [fn |-> "none", path |-> PathStr(FitReportPath), data |-> data,
                  use_data_uri |-> FALSE, now |-> 0]
    /\ result = NoResult
    /\ fmt = NoCall
    /\ report = NoReport
    /\ env = NoEnv
    /\ cli = NoCli

\* The caller holds one series (call.data) and writes its fit report.
WriteFitReport ==
    \E use_data_uri \in BOOLEAN, now \in Clock :
        \E e \in {generate_fit_report(fs, dirs, call.data, model_json, FitPlotPath,
                                       FitReportPath, use_data_uri, now)} :
           /\ call' = [fn |-> "generate_fit_report", path |-> PathStr(FitReportPath),
                       data |-> call.data, use_data_uri |-> use_data_uri, now |-> now]
           /\ result' = e.out
           /\ fs' = e.files
           /\ dirs' = e.dirs
           /\ UNCHANGED <<model_json, fmt, report, diagnostics_json, env, cli>>

NextShape == WriteFitReport

SpecShape == InitShape /\ [][NextShape]_vars

FitWritten == call.fn = "generate_fit_report" /\ result.exc = "none"

Symmetric == "- **Skewness:** The distribution appears approximately symmetric."
RightSkewed == "- **Skewness:** The distribution is right-skewed (positively skewed) with a tail extending toward positive values."
LeftSkewed == "- **Skewness:** The distribution is left-skewed (negatively skewed) with a tail extending toward negative values."
Mesokurtic == "- **Kurtosis:** The distribution has approximately normal tail behavior (mesokurtic)."
Leptokurtic == "- **Kurtosis:** The distribution exhibits heavy tails (leptokurtic), suggesting more extreme values than a normal distribution."
Platykurtic == "- **Kurtosis:** The distribution has light tails (platykurtic), with fewer extreme values than a normal distribution."

\* The skewness and the excess kurtosis of the series the report was written
\* from, as exact comparisons of moment sums; neither is a number when the
\* series is constant.
SeriesValues == FirstColumn(call.data)

RECURSIVE SumSeq(_)
SumSeq(s) == IF s = <<>> THEN 0 ELSE Head(s) + SumSeq(Tail(s))

Abs(n) == IF n < 0 THEN 0 - n ELSE n

\* The sum over the values x of (n * x - sum(values))^k: n^k times the sum of
\* the k-th powers of the deviations from the mean.
CentralSum(values, k) ==
    LET n == Len(values)
        total == SumSeq(values)
        RECURSIVE power(_, _)
        power(d, e) == IF e = 0 THEN 1 ELSE d * power(d, e - 1)
    IN SumSeq([i \in DOMAIN values |-> power(n * values[i] - total, k)])

IsConstant == \A i, j \in DOMAIN SeriesValues : SeriesValues[i] = SeriesValues[j]
SkewSign == CentralSum(SeriesValues, 3)
SkewBelowHalf ==
    /\ ~IsConstant
    /\ 4 * Len(SeriesValues) * SkewSign * SkewSign
          < CentralSum(SeriesValues, 2) * CentralSum(SeriesValues, 2) * CentralSum(SeriesValues, 2)
KurtSign ==
    Len(SeriesValues) * CentralSum(SeriesValues, 4)
        - 3 * CentralSum(SeriesValues, 2) * CentralSum(SeriesValues, 2)
KurtBelowHalf ==
    /\ ~IsConstant
    /\ 2 * Abs(KurtSign) < CentralSum(SeriesValues, 2) * CentralSum(SeriesValues, 2)

\* The number of lines of the report body that are one of the given bullets.
Emitted(bullets) ==
    Cardinality({i \in DOMAIN fs[call.path].text.body : fs[call.path].text.body[i] \in bullets})

\* C27: the fit report has exactly one skewness bullet: "approximately
\* symmetric" iff the magnitude of the skewness is below 0.5, otherwise
\* "right-skewed" iff the skewness is positive and "left-skewed" iff it is
\* negative; and exactly one kurtosis bullet chosen by the same rule.
C27_ShapeBullets ==
    FitWritten =>
        /\ Emitted({Symmetric, RightSkewed, LeftSkewed}) = 1
        /\ Emitted({Symmetric}) = 1 <=> SkewBelowHalf
        /\ Emitted({RightSkewed}) = 1 <=> (~SkewBelowHalf /\ ~IsConstant /\ SkewSign > 0)
        /\ Emitted({LeftSkewed}) = 1 <=> (~SkewBelowHalf /\ ~IsConstant /\ SkewSign < 0)
        /\ Emitted({Mesokurtic, Leptokurtic, Platykurtic}) = 1
        /\ Emitted({Mesokurtic}) = 1 <=> KurtBelowHalf
        /\ Emitted({Leptokurtic}) = 1 <=> (~KurtBelowHalf /\ ~IsConstant /\ KurtSign > 0)
        /\ Emitted({Platykurtic}) = 1 <=> (~KurtBelowHalf /\ ~IsConstant /\ KurtSign < 0)

\* The rule holds for every series that is not constant.
C27_ExceptConstant == (FitWritten /\ ~IsConstant) => C27_ShapeBullets

\* ---------------------------------------------------------------------------
\* The diagnostics report over test records
\* ---------------------------------------------------------------------------

\* p-values below, at and above the 0.05 threshold.
TestPValues == {JFloat(3), JFloat(5), JFloat(50)}

\* Ljung-Box records whose three arrays have 0..MaxLags entries each.
TestLjungBoxes ==
    {MkObj(<< <<"lags", JList([i \in 1..nl |-> JInt(i)])>>,
            <<"statistics", JList([i \in 1..ns |-> JFloat(150)])>>,
            <<"pvalues", JList(pv)>> >>) :
        nl \in 0..MaxLags, ns \in 0..MaxLags, pv \in SeqUpTo(TestPValues, MaxLags)}

\* Jarque-Bera records with the statistic and the p-value present or not.
TestJarqueBeras ==
    {MkObj(<< <<"statistic", st>>, <<"pvalue", pv>> >>) :
        st \in {Absent, JFloat(250)},
        pv \in {Absent, JFloat(0), JFloat(3), JFloat(5), JFloat(50), JNull}}

\* Documents in which one of the two records varies.
TestDocs ==
    {MkObj(<< <<"ljung_box_test", lb>>, <<"jarque_bera_test", ExampleJarqueBera>> >>) :
        lb \in TestLjungBoxes}
    \cup {MkObj(<< <<"ljung_box_test", lb>>, <<"jarque_bera_test", jb>> >>) :
            lb \in {Absent, ExampleLjungBox}, jb \in TestJarqueBeras}

\* A series of two rows.
ExampleFrame == DataFrame(SeriesColumns, [i \in 1..2 |-> [c \in Range(SeriesColumns) |-> i]])

InitFind ==
    /\ diagnostics_json \in TestDocs
    /\ model_json = ExampleModel
    /\ fs \in [{PathStr(DiagPlotPath), PathStr(DiagReportPath)} -> {NoFile, ImageFile(PngBytes)}]
    /\ fs[PathStr(DiagReportPath)] = NoFile
    /\ dirs = {DirStr(DiagPlotPath.parent)}
    /\ call = NoLoaderCall
    /\ result = NoResult
    /\ fmt = NoCall
    /\ report = NoReport
    /\ env = NoEnv
    /\ cli = NoCli

WriteDiagnosticsReport ==
    \E use_data_uri \in BOOLEAN, now \in Clock :
        \E e \in {generate_diagnostics_report(fs, dirs, model_json, ExampleFrame,
                        diagnostics_json, DiagPlotPath, DiagReportPath, use_data_uri, now)} :
           /\ call' = [fn |-> "generate_diagnostics_report",
                       path |-> PathStr(DiagReportPath),
                       use_data_uri |-> use_data_uri, now |-> now]
           /\ result' = e.out
           /\ fs' = e.files
           /\ dirs' = e.dirs
           /\ UNCHANGED <<model_json, fmt, report, diagnostics_json, env, cli>>

NextFind == WriteDiagnosticsReport

SpecFind == InitFind /\ [][NextFind]_vars

DiagnosticsWritten == call.fn = "generate_diagnostics_report" /\ result.exc = "none"

\* The lines of the test results and of the key findings of the report.
ResultLines == Range(fs[call.path].text.body)
FindingLines == Range(fs[call.path].text.findings)

\* The Ljung-Box record of the document and its three arrays.
LjungBoxRecord == Get(diagnostics_json, "ljung_box_test", EmptyObj)
HasLjungBox == HasKey(diagnostics_json, "ljung_box_test")
RecordLags == LjungBoxRecord.o["lags"].l
RecordStatistics == LjungBoxRecord.o["statistics"].l
RecordPValues == LjungBoxRecord.o["pvalues"].l

\* The table row of lag i as the claim describes it.
ExpectedRow(i) ==
    "| " \o ToString(RecordLags[i].i) \o " | " \o FixedStr(RecordStatistics[i].c, 4)
        \o " | " \o FixedStr(RecordPValues[i].c, 4) \o " | "
        \o (IF RecordPValues[i].c > 5 THEN "Pass" ELSE "Fail") \o " |"

\* The rows of the Ljung-Box table: the lines before the interpretation,
\* the heading left out.
TableRows ==
    {i \in DOMAIN fs[call.path].text.body :
        \E l \in 1..MaxLags, st \in {150}, p \in {3, 5, 50}, r \in {"Pass", "Fail"} :
            fs[call.path].text.body[i]
                = "| " \o ToString(l) \o " | " \o FixedStr(st, 4) \o " | "
                    \o FixedStr(p, 4) \o " | " \o r \o " |"}

Failing == Cardinality({i \in DOMAIN RecordPValues : RecordPValues[i].c <= 5})

AllPass == "Interpretation: All Ljung-Box tests pass"
SignificantAutocorrelation == "Interpretation: Significant autocorrelation detected"
MayBenefit == "Overall Assessment: may benefit from specification changes"

\* C28: for every Ljung-Box record, the table has one row per p-value, Pass
\* iff the p-value is above 0.05; the interpretation is "all pass" iff no
\* p-value is at most 0.05 and "Significant autocorrelation" iff at least half
\* of them are; "may benefit from specification changes" is among the key
\* findings iff the interpretation is "Significant autocorrelation"; and "all
\* pass" is never said of a record with no p-values.
C28_LjungBox ==
    (DiagnosticsWritten /\ HasLjungBox) =>
        /\ Cardinality(TableRows) = Len(RecordPValues)
        /\ \A i \in DOMAIN RecordPValues :
              /\ i \in DOMAIN RecordLags
              /\ i \in DOMAIN RecordStatistics
              /\ ExpectedRow(i) \in ResultLines
        /\ Len(RecordPValues) > 0 =>
              /\ AllPass \in ResultLines <=> Failing = 0
              /\ SignificantAutocorrelation \in ResultLines <=> 2 * Failing >= Len(RecordPValues)
        /\ MayBenefit \in FindingLines <=> SignificantAutocorrelation \in ResultLines
        /\ Len(RecordPValues) = 0 => AllPass \notin ResultLines

\* Where the three arrays are equally long and not empty, the claim holds.
C28_ForFilledParallelArrays ==
    (/\ DiagnosticsWritten
     /\ HasLjungBox
     /\ Len(RecordPValues) > 0
     /\ Len(RecordLags) = Len(RecordPValues)
     /\ Len(RecordStatistics) = Len(RecordPValues)) => C28_LjungBox

\* The Jarque-Bera record of the document; a record without entries gets no
\* section in the report.
JarqueBeraRecord == Get(diagnostics_json, "jarque_bera_test", EmptyObj)
HasJarqueBera == HasKey(diagnostics_json, "jarque_bera_test") /\ Truthy(JarqueBeraRecord)

AppearNormal == "Interpretation: Residuals appear approximately normally distributed"
DeviateFromNormality == "Interpretation: Residuals deviate from normality"
Departures ==
    {"Normality: substantial departure from normality",
     "Normality: some departure from normality"}

\* C30: a Jarque-Bera interpretation is in the report only when the record
\* holds a numeric pvalue; when it holds no pvalue the table shows N/A and
\* there is no interpretation; a departure-from-normality key finding only
\* goes with the interpretation "deviate from normality".
C30_JarqueBera ==
    (DiagnosticsWritten /\ HasJarqueBera) =>
        /\ (AppearNormal \in ResultLines \/ DeviateFromNormality \in ResultLines)
              => (HasKey(JarqueBeraRecord, "pvalue")
                    /\ IsNumber(JarqueBeraRecord.o["pvalue"]))
        /\ ~HasKey(JarqueBeraRecord, "pvalue")
              => /\ "| p-value | N/A |" \in ResultLines
                 /\ AppearNormal \notin ResultLines
                 /\ DeviateFromNormality \notin ResultLines
        /\ FindingLines \cap Departures # {} => DeviateFromNormality \in ResultLines

\* Where the record holds a pvalue, the claim holds.
C30_WithPValue ==
    (DiagnosticsWritten /\ HasJarqueBera /\ HasKey(JarqueBeraRecord, "pvalue"))
        => C30_JarqueBera
====
